---- MODULE Spec2Model ----
(***************************************************************************)
(* WebRunner: the task orchestrator (runTask, src/core/index.ts) and the   *)
(* plan executor (executePlan, src/core/execute/executor.ts) as one        *)
(* sequential state machine.  Every await of the two functions is one      *)
(* step; the synchronous code between two awaits belongs to the step that  *)
(* precedes it.  The oracle (LLM), the page and the file system are the    *)
(* environment: their answers are drawn nondeterministically.              *)
(***************************************************************************)
EXTENDS Naturals, Integers, Sequences, FiniteSets, TLC

\* ---------------------------------------------------------------- bounds
MaxRounds == 2      \* config.maxPatchRounds ranges over 0..MaxRounds
MaxSteps == 2       \* longest plan the oracle returns

\* ------------------------------------------------------ program constants
Retries == 3        \* LLMClient.call: retries = 3

stepOps == {"navigate", "click", "type", "select", "waitFor", "extract",
            "screenshot", "scroll"}
verdictStatuses == {"success", "patch", "escalate"}

\* ------------------------------------------------------------- variables
VARIABLES
  pc,             \* position in runTask / executePlan
  session,        \* BrowserController: "none" | "partial" | "open" | "closed"
  closeCalls,     \* number of browser.close() calls
  error,          \* the error runTask is unwinding with ("none" if none)
  raised,         \* the error first thrown out of a phase (history)
  returned,       \* TRUE once the return statement of runTask was reached
  result,         \* TaskResult.verdict of the returned result
  maxPatchRounds, \* config.maxPatchRounds
  patchRound,     \* let patchRound
  llmAttempt,     \* LLMClient.call: attempt
  totalCalls,     \* LLMClient.totalCalls
  plan,           \* the plan (or patch plan) in hand
  verdict,        \* let verdict
  files,          \* artifacts on disk
  verdictFile,    \* content of result/verdict.json
  stepIdx,        \* executePlan: index of the step of the for loop
  stepResults,    \* executePlan: stepResults
  currentState,   \* executePlan: snapshot in use (0 = the one passed in,
                  \*   i = the one captured after step i)
  assertionResult,\* executePlan: "undefined" | "passed" | "failed"
  trace,          \* history of the current executePlan pass
  challenge,      \* history: challenge detected in the latest pass
  observations,       \* history: which observation each local of runTask holds
  writtenBy,      \* history: per artifact, the write that produced its content
  input,          \* arguments of the library function under study
  output,         \* what that function returned or threw
  disk,           \* directory entries and file contents of an artifact path
  writer,         \* writeJsonArtifact: position and payload of the writer
  reader          \* readJsonArtifact: position and buffer of a reader

runVars == <<pc, session, closeCalls, error, raised, returned, result,
             maxPatchRounds, patchRound, llmAttempt, totalCalls, plan, verdict,
             files,
             verdictFile, stepIdx, stepResults, currentState, assertionResult,
             trace, challenge, observations, writtenBy>>

\* the variables of the library functions studied on their own
libVars == <<input, output, disk, writer, reader>>

vars == <<runVars, libVars>>

\* ------------------------------------------------------- oracle outputs
\* A step as the oracle writes it; id "" stands for a missing id, and "hover"
\* is an op outside stepOps.
StepPool ==
  { [id |-> "A", op |-> "navigate"],
    [id |-> "B", op |-> "click"],
    [id |-> "",  op |-> "hover"] }

RECURSIVE SeqsUpTo(_, _)
SeqsUpTo(S, n) ==
  IF n = 0 THEN { <<>> }
  ELSE LET shorter == SeqsUpTo(S, n - 1)
       IN  shorter \cup { Append(s, x) : s \in shorter, x \in S }

\* Parsed JSON objects the oracle may answer a plan request with.
PlanObjects ==
  { [hasGoal |-> a[1], hasSteps |-> TRUE, steps |-> s,
     hasAssertions |-> a[2], assertions |-> a[3]] :
       s \in SeqsUpTo(StepPool, MaxSteps),
       a \in { <<TRUE, FALSE, <<>>>>, <<TRUE, TRUE, <<>>>>,
               <<TRUE, TRUE, <<"urlContains">>>>, <<FALSE, FALSE, <<>>>> } }
  \cup
  { [hasGoal |-> TRUE, hasSteps |-> FALSE, steps |-> <<>>,
     hasAssertions |-> FALSE, assertions |-> <<>>] }

\* Parsed JSON objects the oracle may answer a verify request with;
\* status "" stands for a missing status.
VerdictObjects ==
  { [status |-> s, hasSummary |-> m, next |-> ""] :
       s \in verdictStatuses \cup {"retry", ""}, m \in BOOLEAN }

NoPlan == [hasGoal |-> FALSE, hasSteps |-> FALSE, steps |-> <<>>,
           hasAssertions |-> FALSE, assertions |-> <<>>]
NoVerdict == [status |-> "", hasSummary |-> FALSE, next |-> ""]

\* The text of an oracle answer: unparseable, the JSON text null, or an object.
PlanTexts ==
  { [kind |-> "garbage", obj |-> NoPlan], [kind |-> "null", obj |-> NoPlan] }
  \cup { [kind |-> "object", obj |-> o] : o \in PlanObjects }
VerdictTexts ==
  { [kind |-> "garbage", obj |-> NoVerdict], [kind |-> "null", obj |-> NoVerdict] }
  \cup { [kind |-> "object", obj |-> o] : o \in VerdictObjects }

\* ------------------------------------------------- planning/validate.ts
validatePlan(t) ==
  /\ t.kind = "object"
  /\ t.obj.hasGoal
  /\ t.obj.hasSteps
  /\ Len(t.obj.steps) >= 1
  /\ \A i \in 1..Len(t.obj.steps) :
        t.obj.steps[i].id # "" /\ t.obj.steps[i].op \in stepOps

validateVerdict(t) ==
  /\ t.kind = "object"
  /\ t.obj.status \in verdictStatuses
  /\ t.obj.hasSummary

repairPlan(o) ==
  [o EXCEPT !.hasAssertions = TRUE]

repairVerdict(o) ==
  [o EXCEPT !.next = IF @ # "" THEN @
                     ELSE IF o.status = "success" THEN "stop"
                     ELSE IF o.status = "patch" THEN "runPatch"
                     ELSE IF o.status = "escalate" THEN "enterStepMode"
                     ELSE @]

\* runTask: parsePlan, and on a schema error repairPlan(safeJsonParse(..)).
\* Result: [err |-> the error thrown or "none", val |-> the plan].
PlanFromOracle(t) ==
  IF t.kind = "garbage" THEN [err |-> "SyntaxError", val |-> NoPlan]
  ELSE IF validatePlan(t) THEN [err |-> "none", val |-> t.obj]
  ELSE IF t.kind = "null" THEN [err |-> "TypeError", val |-> NoPlan]
  ELSE [err |-> "none", val |-> repairPlan(t.obj)]

VerdictFromOracle(t) ==
  IF t.kind = "garbage" THEN [err |-> "SyntaxError", val |-> NoVerdict]
  ELSE IF validateVerdict(t) THEN [err |-> "none", val |-> t.obj]
  ELSE IF t.kind = "null" THEN [err |-> "TypeError", val |-> NoVerdict]
  ELSE [err |-> "none", val |-> repairVerdict(t.obj)]

\* ------------------------------------------------------------ artifacts
initialStateFile == <<"state/initial.json", 0>>
finalStateFile == <<"state/final.json", 0>>
diffStateFile == <<"state/diff.json", 0>>
planFile == <<"plans/plan.json", 0>>
runlogFile == <<"logs/runlog.json", 0>>
verdictPath == <<"result/verdict.json", 0>>
patchPlan(k) == <<"plans/patch.json", k>>
patchLog(k) == <<"plans/patch-log.json", k>>

\* The runlogPath argument runTask passes to executePlan.
runlogPath == IF patchRound = 0 THEN runlogFile ELSE patchLog(patchRound)

\* ----------------------------------------------------------------- Init
\* no library function is under study
Idle == "idle"

LibIdle ==
  /\ input = Idle
  /\ output = Idle
  /\ disk = Idle
  /\ writer = Idle
  /\ reader = Idle

\* The observations runTask holds: initialState (index.ts 58), finalState
\* (90), the state given to buildVerifyPrompt (101, 136), to buildPatchPrompt
\* (119) and to executePlan (85, 129), and the state the verdict in hand was
\* computed from; observations are numbered in the order collectState made them
NoObservation ==
  [latest |-> 0, initialState |-> 0, finalState |-> 0, verifyPrompt |-> 0,
   patchPrompt |-> 0, pass |-> 0, verdict |-> 0]

\* writeJsonArtifact(path, data): the file holds what this write put there
NoFiles == [f \in {} |-> 0]
Written(f, round, state) ==
  [x \in DOMAIN writtenBy \cup {f} |->
     IF x = f THEN [round |-> round, state |-> state] ELSE writtenBy[x]]

RunInit ==
  /\ pc = "launch"
  /\ session = "none"
  /\ closeCalls = 0
  /\ error = "none"
  /\ raised = "none"
  /\ returned = FALSE
  /\ result = NoVerdict
  /\ maxPatchRounds \in 0..MaxRounds
  /\ patchRound = 0
  /\ llmAttempt = 1
  /\ totalCalls = 0
  /\ plan = NoPlan
  /\ verdict = NoVerdict
  /\ files = {}
  /\ verdictFile = NoVerdict
  /\ stepIdx = 1
  /\ stepResults = <<>>
  /\ currentState = 0
  /\ assertionResult = "undefined"
  /\ trace = <<>>
  /\ challenge = "none"
  /\ observations = NoObservation
  /\ writtenBy = NoFiles

Init == RunInit /\ LibIdle

\* --------------------------------------------------------------- errors
\* errors.ts: the kinds that are WebRunnerError, and their recoverable flag.
WebRunnerErrors ==
  {"CaptchaDetected", "TwoFADetected", "LoginFailed", "ElementMissing",
   "NavigationFailed", "AssertionFailed", "Timeout", "SchemaValidationFailed",
   "LLMError"}

recoverable(e) ==
  e \in {"ElementMissing", "NavigationFailed", "AssertionFailed", "Timeout",
         "LLMError"}

\* What executeStep can do with a step of the given op: complete ("ok") or
\* throw.  An op outside the switch falls to the default branch and returns.
StepOutcomes(op) ==
  IF op = "navigate" THEN {"ok", "NavigationFailed"}
  ELSE IF op \in {"click", "type", "select"} THEN {"ok", "ElementMissing", "Error"}
  ELSE IF op = "waitFor" THEN {"ok", "Timeout"}
  ELSE IF op \in {"screenshot", "scroll", "extract"} THEN {"ok", "Error"}
  ELSE {"ok"}

\* ---------------------------------------------------- executePlan helpers
Event(e, i, r) == [ev |-> e, step |-> i, res |-> r]

\* StepResult with the error message left out.
StepResultWithoutError(step, status, err) ==
  [id |-> step.id, op |-> step.op, status |-> status, error |-> "none"]

StepResult(step, status, err) ==
  [id |-> step.id, op |-> step.op, status |-> status, error |-> err]

\* if (plan.assertions && plan.assertions.length > 0)
ShouldRunAssertions(p) == p.hasAssertions /\ Len(p.assertions) > 0

\* Where executePlan goes once the for loop is left.
AfterSteps(p) == IF ShouldRunAssertions(p) THEN "assert" ELSE "writeLog"

\* AfterCatch with the break after a recoverable failure left out: the loop
\* goes on with the next step.
AfterCatchContinues(e, p) ==
  IF e \in {"CaptchaDetected", "TwoFADetected"}
       \/ (e \in WebRunnerErrors /\ ~recoverable(e))
    THEN AfterSteps(p)
  ELSE "snapshot"

\* AfterCatch leaving executePlan's step loop by an early exit that skips the
\* assertion pass.
AfterCatchSkipsAssertions(e, p) ==
  IF e = "ElementMissing" THEN "recoverCookie" ELSE "writeLog"

\* AfterCatch with the recovery made for every recoverable error.
AfterCatchRecoversAll(e, p) ==
  IF e \in {"CaptchaDetected", "TwoFADetected"}
       \/ (e \in WebRunnerErrors /\ ~recoverable(e))
    THEN AfterSteps(p)
  ELSE IF e \in WebRunnerErrors THEN "recoverCookie"
  ELSE AfterSteps(p)

\* The catch block of the for loop, after the failed result is pushed:
\* break at once for escalatable / non-recoverable errors, recovery first for
\* ElementMissing, break otherwise.
AfterCatch(e, p) ==
  IF e \in {"CaptchaDetected", "TwoFADetected"}
       \/ (e \in WebRunnerErrors /\ ~recoverable(e))
    THEN AfterSteps(p)
  ELSE IF e = "ElementMissing" THEN "recoverCookie"
  ELSE AfterSteps(p)

\* The for loop after a successful step and its snapshot.
AfterSnapshot(i, p) == IF i < Len(p.steps) THEN "captcha" ELSE AfterSteps(p)

\* -------------------------------------------------------- runTask helpers
\* LoopCond without the test of the verdict status.
LoopCondIgnoresStatus(v, r, m) == r < m

\* LoopCond without the bound on the number of rounds.
LoopCondUnbounded(v, r, m) == v.status = "patch"

\* while (verdict.status === 'patch' && patchRound < config.maxPatchRounds)
LoopCond(v, r, m) == v.status = "patch" /\ r < m

\* ResultVerdict with a verdict that is still 'patch' rewritten to 'escalate'.
ResultVerdictForced(v) ==
  IF v.status = "patch" THEN [v EXCEPT !.status = "escalate"] ELSE v

\* const result: TaskResult = { ..., verdict, ... }
ResultVerdict(v) == v

\* FinallyError with close() letting its own failure escape.
FinallyErrorMasked(e, closeFailed) == IF closeFailed THEN "CloseError" ELSE e

\* finally { await browser.close() }: close() swallows its own failures, so
\* the error in flight is the one runTask rejects with.
FinallyError(e, closeFailed) == e

\* The awaits of runTask and executePlan that reject when the browser or the
\* file system fails, with the error they reject with.
Fallible ==
  {"setup", "observe0", "writeInitial", "writePlan", "writeLog", "observe1",
   "writeFinal", "writeDiff", "writeVerdict", "writePatch", "observeP",
   "stopTrace"}

FailureAt(p) ==
  IF p \in {"writeInitial", "writePlan", "writeLog", "writeFinal", "writeDiff",
            "writeVerdict", "writePatch"}
    THEN "IOError"
  ELSE IF p = "setup" THEN "NavigationFailed"
  ELSE "Error"

LLMPcs == {"planCall", "verifyCall", "patchCall"}

\* --------------------------------------------------------------- actions
\* Throw without the finally block: the error leaves runTask at once.
ThrowNoFinally(e) ==
  /\ error' = e
  /\ raised' = e
  /\ pc' = "done"

\* try { ... } finally { ... }: an error thrown in the try block passes
\* control to the finally block.
Throw(e) ==
  /\ error' = e
  /\ raised' = e
  /\ pc' = "finally"

\* executePlan up to its first await: fresh locals.
EnterExecutePlan ==
  /\ stepIdx' = 1
  /\ stepResults' = <<>>
  /\ currentState' = 0
  /\ assertionResult' = "undefined"
  /\ trace' = <<>>
  /\ challenge' = "none"
  /\ pc' = "preCookie"

passVars == <<stepIdx, stepResults, currentState, assertionResult, trace, challenge>>
configVars == <<maxPatchRounds, result, totalCalls>>

\* await browser.launch()
Launch ==
  /\ pc = "launch"
  /\ \/ /\ session' = "open"
        /\ pc' = "setup"
        /\ UNCHANGED <<error, raised>>
     \/ /\ session' \in {"none", "partial"}
        /\ Throw("Error")
  /\ UNCHANGED <<closeCalls, returned, configVars, patchRound, llmAttempt, plan,
                 verdict, files, verdictFile, passVars>>
  /\ UNCHANGED <<observations, writtenBy>>
  /\ UNCHANGED libVars

\* browser.navigate(startUrl) and browser.startTrace(), when configured
Setup ==
  /\ pc = "setup"
  /\ pc' = "observe0"
  /\ UNCHANGED <<session, closeCalls, error, raised, returned, configVars,
                 patchRound, llmAttempt, plan, verdict, files, verdictFile,
                 passVars>>
  /\ UNCHANGED <<observations, writtenBy>>
  /\ UNCHANGED libVars

\* collectState + screenshot
Observe0 ==
  /\ pc = "observe0"
  /\ pc' = "writeInitial"
  /\ UNCHANGED <<session, closeCalls, error, raised, returned, configVars,
                 patchRound, llmAttempt, plan, verdict, files, verdictFile,
                 passVars>>
  /\ observations' = [observations EXCEPT !.latest = @ + 1,
                                  !.initialState = observations.latest + 1]
  /\ UNCHANGED writtenBy
  /\ UNCHANGED libVars

\* WriteInitial with the write left out.
WriteInitialNotPersisted ==
  /\ pc = "writeInitial"
  /\ llmAttempt' = 1
  /\ pc' = "planCall"
  /\ UNCHANGED <<session, closeCalls, error, raised, returned, configVars,
                 patchRound, plan, verdict, files, verdictFile, passVars>>
  /\ UNCHANGED <<observations, writtenBy>>
  /\ UNCHANGED libVars

\* writeJsonArtifact(paths.initialState), then the plan prompt is built and
\* llm.call starts
WriteInitial ==
  /\ pc = "writeInitial"
  /\ files' = files \cup {initialStateFile}
  /\ llmAttempt' = 1
  /\ pc' = "planCall"
  /\ UNCHANGED <<session, closeCalls, error, raised, returned, configVars,
                 patchRound, plan, verdict, verdictFile, passVars>>
  /\ writtenBy' = Written(initialStateFile, patchRound, observations.initialState)
  /\ UNCHANGED observations
  /\ UNCHANGED libVars

\* LLMAttemptFails without the retry: the first failure is fatal.
LLMAttemptFailsNoRetry ==
  /\ pc \in LLMPcs
  /\ Throw("LLMError")
  /\ UNCHANGED <<session, closeCalls, returned, configVars, patchRound, plan,
                 llmAttempt, verdict, files, verdictFile, passVars>>
  /\ UNCHANGED <<observations, writtenBy>>
  /\ UNCHANGED libVars

\* LLMAttemptFails with the failed attempt counted in totalCalls.
LLMAttemptFailsCounted ==
  /\ pc \in LLMPcs
  /\ totalCalls' = totalCalls + 1
  /\ IF llmAttempt < Retries
       THEN /\ llmAttempt' = llmAttempt + 1
            /\ UNCHANGED <<pc, error, raised>>
       ELSE /\ Throw("LLMError")
            /\ UNCHANGED llmAttempt
  /\ UNCHANGED <<session, closeCalls, returned, maxPatchRounds, result,
                 patchRound, plan, verdict, files, verdictFile, passVars>>
  /\ UNCHANGED <<observations, writtenBy>>
  /\ UNCHANGED libVars

\* LLMClient.call: one attempt fails; LLMError after the last one
LLMAttemptFails ==
  /\ pc \in LLMPcs
  /\ IF llmAttempt < Retries
       THEN /\ llmAttempt' = llmAttempt + 1
            /\ UNCHANGED <<pc, error, raised>>
       ELSE /\ Throw("LLMError")
            /\ UNCHANGED llmAttempt
  /\ UNCHANGED <<session, closeCalls, returned, configVars, patchRound, plan,
                 verdict, files, verdictFile, passVars>>
  /\ UNCHANGED <<observations, writtenBy>>
  /\ UNCHANGED libVars

\* llm.call answers the plan request; parsePlan / repairPlan
PlanCallOk(t) ==
  /\ pc = "planCall"
  /\ totalCalls' = totalCalls + 1
  /\ llmAttempt' = 1   \* the call returned: attempt is out of scope
  /\ LET r == PlanFromOracle(t)
     IN  IF r.err # "none"
           THEN Throw(r.err) /\ UNCHANGED plan
           ELSE /\ plan' = r.val
                /\ pc' = "writePlan"
                /\ UNCHANGED <<error, raised>>
  /\ UNCHANGED <<session, closeCalls, returned, maxPatchRounds, result,
                 patchRound,
                 verdict, files, verdictFile, passVars>>
  /\ UNCHANGED <<observations, writtenBy>>
  /\ UNCHANGED libVars

\* writeJsonArtifact(paths.planFile); logger reads plan.steps.length;
\* executePlan is entered
WritePlan ==
  /\ pc = "writePlan"
  /\ files' = files \cup {planFile}
  /\ IF plan.hasSteps
       THEN EnterExecutePlan /\ UNCHANGED <<error, raised>>
       ELSE Throw("TypeError") /\ UNCHANGED passVars
  /\ UNCHANGED <<session, closeCalls, returned, configVars, patchRound,
                 llmAttempt, plan, verdict, verdictFile>>
  /\ writtenBy' = Written(planFile, patchRound, 0)
  /\ observations' = IF plan.hasSteps
                   THEN [observations EXCEPT !.pass = observations.initialState]
                   ELSE observations
  /\ UNCHANGED libVars

\* Pre-run: await handleCookieBanner(page).catch(() => {})
PreCookie ==
  /\ pc = "preCookie"
  /\ trace' = Append(trace, Event("preCookie", 0, TRUE))
  /\ pc' = "preModal"
  /\ UNCHANGED <<session, closeCalls, error, raised, returned, configVars,
                 patchRound, llmAttempt, plan, verdict, files, verdictFile,
                 stepIdx, stepResults, currentState, assertionResult, challenge>>
  /\ UNCHANGED <<observations, writtenBy>>
  /\ UNCHANGED libVars

\* Pre-run: await dismissModal(page).catch(() => {}); then the for loop is
\* entered (plan.steps is iterated)
PreModal ==
  /\ pc = "preModal"
  /\ trace' = Append(trace, Event("preModal", 0, TRUE))
  /\ IF ~plan.hasSteps THEN Throw("TypeError")
     ELSE /\ pc' = IF Len(plan.steps) > 0 THEN "captcha" ELSE AfterSteps(plan)
          /\ UNCHANGED <<error, raised>>
  /\ UNCHANGED <<session, closeCalls, returned, configVars,
                 patchRound, llmAttempt, plan, verdict, files, verdictFile,
                 stepIdx, stepResults, currentState, assertionResult, challenge>>
  /\ UNCHANGED <<observations, writtenBy>>
  /\ UNCHANGED libVars

\* The catch block: push the failed result, then break (with or without
\* recovery first)
CatchStep(e) ==
  /\ stepResults' = Append(stepResults, StepResult(plan.steps[stepIdx], "failed", e))
  /\ pc' = AfterCatch(e, plan)

\* DetectCaptcha with the detector's answer ignored.
DetectCaptchaIgnored(d) ==
  /\ pc = "captcha"
  /\ trace' = Append(trace, Event("captcha", stepIdx, d))
  /\ pc' = "twoFA"
  /\ UNCHANGED <<session, closeCalls, error, raised, returned, configVars,
                 patchRound, llmAttempt, plan, verdict, files, verdictFile,
                 stepIdx, stepResults, currentState, assertionResult, challenge>>
  /\ UNCHANGED <<observations, writtenBy>>
  /\ UNCHANGED libVars

\* if (await detectCaptcha(page)) throw new CaptchaDetected()
DetectCaptcha(d) ==
  /\ pc = "captcha"
  /\ trace' = Append(trace, Event("captcha", stepIdx, d))
  /\ IF d THEN CatchStep("CaptchaDetected") /\ challenge' = "captcha"
          ELSE pc' = "twoFA" /\ UNCHANGED <<stepResults, challenge>>
  /\ UNCHANGED <<session, closeCalls, error, raised, returned, configVars,
                 patchRound, llmAttempt, plan, verdict, files, verdictFile,
                 stepIdx, currentState, assertionResult>>
  /\ UNCHANGED <<observations, writtenBy>>
  /\ UNCHANGED libVars

\* if (await detect2FA(page)) throw new TwoFADetected()
Detect2FA(d) ==
  /\ pc = "twoFA"
  /\ trace' = Append(trace, Event("twoFA", stepIdx, d))
  /\ IF d THEN CatchStep("TwoFADetected") /\ challenge' = "twoFA"
          ELSE pc' = "dispatch" /\ UNCHANGED <<stepResults, challenge>>
  /\ UNCHANGED <<session, closeCalls, error, raised, returned, configVars,
                 patchRound, llmAttempt, plan, verdict, files, verdictFile,
                 stepIdx, currentState, assertionResult>>
  /\ UNCHANGED <<observations, writtenBy>>
  /\ UNCHANGED libVars

\* await executeStep(step, browser, currentState, ...), and the push of its
\* result; the event records the snapshot handed over
Dispatch(o) ==
  /\ pc = "dispatch"
  /\ o \in StepOutcomes(plan.steps[stepIdx].op)
  /\ trace' = Append(trace, [ev |-> "dispatch", step |-> stepIdx, res |-> o = "ok",
                             state |-> currentState])
  /\ IF o = "ok"
       THEN /\ stepResults' =
                 Append(stepResults, StepResult(plan.steps[stepIdx], "success", "none"))
            /\ pc' = "snapshot"
       ELSE CatchStep(o)
  /\ UNCHANGED <<session, closeCalls, error, raised, returned, configVars,
                 patchRound, llmAttempt, plan, verdict, files, verdictFile,
                 stepIdx, currentState, assertionResult, challenge>>
  /\ UNCHANGED <<observations, writtenBy>>
  /\ UNCHANGED libVars

\* Snapshot with the captured state dropped.
SnapshotNotStored(ok) ==
  /\ pc = "snapshot"
  /\ trace' = Append(trace, Event("snapshot", stepIdx, ok))
  /\ pc' = AfterSnapshot(stepIdx, plan)
  /\ stepIdx' = stepIdx + 1
  /\ UNCHANGED <<session, closeCalls, error, raised, returned, configVars,
                 patchRound, llmAttempt, plan, verdict, files, verdictFile,
                 stepResults, currentState, assertionResult, challenge>>
  /\ UNCHANGED <<observations, writtenBy>>
  /\ UNCHANGED libVars

\* try { currentState = await collectState(...) } catch { /* non-fatal */ }
Snapshot(ok) ==
  /\ pc = "snapshot"
  /\ trace' = Append(trace, Event("snapshot", stepIdx, ok))
  /\ currentState' = IF ok THEN stepIdx ELSE currentState
  /\ pc' = AfterSnapshot(stepIdx, plan)
  /\ stepIdx' = stepIdx + 1
  /\ UNCHANGED <<session, closeCalls, error, raised, returned, configVars,
                 patchRound, llmAttempt, plan, verdict, files, verdictFile,
                 stepResults, assertionResult, challenge>>
  /\ UNCHANGED <<observations, writtenBy>>
  /\ UNCHANGED libVars

\* RecoverCookie breaking out of the loop without the modal dismissal.
RecoverCookieSkipsModal(ok) ==
  /\ pc = "recoverCookie"
  /\ trace' = Append(trace, Event("recoverCookie", stepIdx, ok))
  /\ pc' = AfterSteps(plan)
  /\ UNCHANGED <<session, closeCalls, error, raised, returned, configVars,
                 patchRound, llmAttempt, plan, verdict, files, verdictFile,
                 stepIdx, stepResults, currentState, assertionResult, challenge>>
  /\ UNCHANGED <<observations, writtenBy>>
  /\ UNCHANGED libVars

\* Recovery after ElementMissing:
\* await handleCookieBanner(browser.page).catch(() => {}); ok is FALSE when
\* the call rejects, which the catch swallows
RecoverCookie(ok) ==
  /\ pc = "recoverCookie"
  /\ trace' = Append(trace, Event("recoverCookie", stepIdx, ok))
  /\ pc' = "recoverModal"
  /\ UNCHANGED <<session, closeCalls, error, raised, returned, configVars,
                 patchRound, llmAttempt, plan, verdict, files, verdictFile,
                 stepIdx, stepResults, currentState, assertionResult, challenge>>
  /\ UNCHANGED <<observations, writtenBy>>
  /\ UNCHANGED libVars

\* await dismissModal(browser.page).catch(() => {}); then break
RecoverModal(ok) ==
  /\ pc = "recoverModal"
  /\ trace' = Append(trace, Event("recoverModal", stepIdx, ok))
  /\ pc' = AfterSteps(plan)
  /\ UNCHANGED <<session, closeCalls, error, raised, returned, configVars,
                 patchRound, llmAttempt, plan, verdict, files, verdictFile,
                 stepIdx, stepResults, currentState, assertionResult, challenge>>
  /\ UNCHANGED <<observations, writtenBy>>
  /\ UNCHANGED libVars

\* const result = await runAssertions(plan.assertions, page, downloadDir)
RunAssertions(passed) ==
  /\ pc = "assert"
  /\ trace' = Append(trace, Event("assert", 0, passed))
  /\ assertionResult' = IF passed THEN "passed" ELSE "failed"
  /\ pc' = "writeLog"
  /\ UNCHANGED <<session, closeCalls, error, raised, returned, configVars,
                 patchRound, llmAttempt, plan, verdict, files, verdictFile,
                 stepIdx, stepResults, currentState, challenge>>
  /\ UNCHANGED <<observations, writtenBy>>
  /\ UNCHANGED libVars

\* await writeJsonArtifact(runlogPath, runLog); return runLog.  The locals of
\* executePlan and its plan argument go out of scope.
WriteLog ==
  /\ pc = "writeLog"
  /\ files' = files \cup {runlogPath}
  /\ pc' = IF patchRound = 0 THEN "observe1" ELSE "observeP"
  /\ plan' = NoPlan
  /\ stepIdx' = 1
  /\ stepResults' = <<>>
  /\ currentState' = 0
  /\ assertionResult' = "undefined"
  /\ trace' = <<>>
  /\ UNCHANGED <<session, closeCalls, error, raised, returned, configVars,
                 patchRound, llmAttempt, verdict, verdictFile, challenge>>
  /\ writtenBy' = Written(runlogPath, patchRound, 0)
  /\ UNCHANGED observations
  /\ UNCHANGED libVars

\* finalState = collectState; diff = diffStates; screenshot
Observe1 ==
  /\ pc = "observe1"
  /\ pc' = "writeFinal"
  /\ UNCHANGED <<session, closeCalls, error, raised, returned, configVars,
                 patchRound, llmAttempt, plan, verdict, files, verdictFile,
                 passVars>>
  /\ observations' = [observations EXCEPT !.latest = @ + 1,
                                  !.finalState = observations.latest + 1]
  /\ UNCHANGED writtenBy
  /\ UNCHANGED libVars

WriteFinal ==
  /\ pc = "writeFinal"
  /\ files' = files \cup {finalStateFile}
  /\ pc' = "writeDiff"
  /\ UNCHANGED <<session, closeCalls, error, raised, returned, configVars,
                 patchRound, llmAttempt, plan, verdict, verdictFile, passVars>>
  /\ writtenBy' = Written(finalStateFile, patchRound, observations.finalState)
  /\ UNCHANGED observations
  /\ UNCHANGED libVars

WriteDiff ==
  /\ pc = "writeDiff"
  /\ files' = files \cup {diffStateFile}
  /\ llmAttempt' = 1
  /\ pc' = "verifyCall"
  /\ UNCHANGED <<session, closeCalls, error, raised, returned, configVars,
                 patchRound, plan, verdict, verdictFile, passVars>>
  /\ writtenBy' = Written(diffStateFile, patchRound, observations.finalState)
  /\ observations' = [observations EXCEPT !.verifyPrompt = observations.finalState]
  /\ UNCHANGED libVars

\* llm.call answers the verify request; parseVerdict / repairVerdict
VerifyCallOk(t) ==
  /\ pc = "verifyCall"
  /\ totalCalls' = totalCalls + 1
  /\ llmAttempt' = 1   \* the call returned: attempt is out of scope
  /\ LET r == VerdictFromOracle(t)
     IN  IF r.err # "none"
           THEN Throw(r.err) /\ UNCHANGED verdict
           ELSE /\ verdict' = r.val
                /\ pc' = "writeVerdict"
                /\ UNCHANGED <<error, raised>>
  /\ UNCHANGED <<session, closeCalls, returned, maxPatchRounds, result,
                 patchRound,
                 plan, files, verdictFile, passVars>>
  /\ observations' = IF VerdictFromOracle(t).err # "none"
                   THEN observations
                   ELSE [observations EXCEPT !.verdict = observations.verifyPrompt]
  /\ UNCHANGED writtenBy
  /\ UNCHANGED libVars

\* The return statement of runTask (control passes to the finally block)
Return ==
  /\ returned' = TRUE
  /\ result' = ResultVerdict(verdict)
  /\ pc' = "finally"

\* await writeJsonArtifact(paths.verdict, verdict); the loop condition is
\* tested; a round starts (patchRound++, patch prompt, llm.call) or the loop is
\* left, and then the trace is stopped when config.allowTracing is set
WriteVerdict(tracing) ==
  /\ pc = "writeVerdict"
  /\ files' = files \cup {verdictPath}
  /\ verdictFile' = verdict
  /\ IF LoopCond(verdict, patchRound, maxPatchRounds)
       THEN /\ patchRound' = patchRound + 1
            /\ llmAttempt' = 1
            /\ pc' = "patchCall"
            /\ UNCHANGED <<returned, result>>
       ELSE /\ IF tracing
                 THEN pc' = "stopTrace" /\ UNCHANGED <<returned, result>>
                 ELSE Return
            /\ UNCHANGED <<patchRound, llmAttempt>>
  /\ UNCHANGED <<session, closeCalls, error, raised, totalCalls,
                 maxPatchRounds, plan, verdict, passVars>>
  /\ writtenBy' = Written(verdictPath, patchRound, observations.verdict)
  /\ observations' = IF LoopCond(verdict, patchRound, maxPatchRounds)
                   THEN [observations EXCEPT !.patchPrompt = observations.finalState]
                   ELSE observations
  /\ UNCHANGED libVars

\* llm.call answers the patch request; parsePlan / repairPlan
PatchCallOk(t) ==
  /\ pc = "patchCall"
  /\ totalCalls' = totalCalls + 1
  /\ llmAttempt' = 1   \* the call returned: attempt is out of scope
  /\ LET r == PlanFromOracle(t)
     IN  IF r.err # "none"
           THEN Throw(r.err) /\ UNCHANGED plan
           ELSE /\ plan' = r.val
                /\ pc' = "writePatch"
                /\ UNCHANGED <<error, raised>>
  /\ UNCHANGED <<session, closeCalls, returned, maxPatchRounds, result,
                 patchRound,
                 verdict, files, verdictFile, passVars>>
  /\ UNCHANGED <<observations, writtenBy>>
  /\ UNCHANGED libVars

\* await writeJsonArtifact(paths.patchPlan(patchRound)); executePlan is entered
WritePatch ==
  /\ pc = "writePatch"
  /\ files' = files \cup {patchPlan(patchRound)}
  /\ EnterExecutePlan
  /\ UNCHANGED <<session, closeCalls, error, raised, returned, configVars,
                 patchRound, llmAttempt, plan, verdict, verdictFile>>
  /\ writtenBy' = Written(patchPlan(patchRound), patchRound, 0)
  /\ observations' = [observations EXCEPT !.pass = observations.finalState]
  /\ UNCHANGED libVars

\* newFinalState = await collectState; verify prompt; llm.call starts
ObserveP ==
  /\ pc = "observeP"
  /\ llmAttempt' = 1
  /\ pc' = "verifyCall"
  /\ UNCHANGED <<session, closeCalls, error, raised, returned, configVars,
                 patchRound, plan, verdict, files, verdictFile, passVars>>
  /\ observations' = [observations EXCEPT !.latest = @ + 1,
                                  !.verifyPrompt = observations.latest + 1]
  /\ UNCHANGED writtenBy
  /\ UNCHANGED libVars

\* await browser.stopTrace(...); return result
StopTrace ==
  /\ pc = "stopTrace"
  /\ Return
  /\ UNCHANGED <<session, closeCalls, error, raised, totalCalls,
                 maxPatchRounds, patchRound, llmAttempt, plan, verdict, files,
                 verdictFile, passVars>>
  /\ UNCHANGED <<observations, writtenBy>>
  /\ UNCHANGED libVars

\* An await of Fallible rejects
Fail ==
  /\ pc \in Fallible
  /\ Throw(FailureAt(pc))
  /\ UNCHANGED <<session, closeCalls, returned, configVars, patchRound,
                 llmAttempt, plan, verdict, files, verdictFile, passVars>>
  /\ UNCHANGED <<observations, writtenBy>>
  /\ UNCHANGED libVars

\* finally { await browser.close() }; runTask settles
Close(closeFailed) ==
  /\ pc = "finally"
  /\ closeCalls' = closeCalls + 1
  /\ session' = IF session = "none" THEN "none" ELSE "closed"
  /\ error' = FinallyError(error, closeFailed)
  /\ pc' = "done"
  /\ UNCHANGED <<raised, returned, configVars, patchRound, llmAttempt, plan,
                 verdict, files, verdictFile, passVars>>
  /\ UNCHANGED <<observations, writtenBy>>
  /\ UNCHANGED libVars

Next ==
  \/ Launch
  \/ Setup
  \/ Observe0
  \/ WriteInitial
  \/ LLMAttemptFails
  \/ \E t \in PlanTexts : PlanCallOk(t)
  \/ WritePlan
  \/ PreCookie
  \/ PreModal
  \/ \E d \in BOOLEAN : DetectCaptcha(d)
  \/ \E d \in BOOLEAN : Detect2FA(d)
  \/ \E o \in {"ok", "NavigationFailed", "ElementMissing", "Timeout", "Error"} :
        Dispatch(o)
  \/ \E ok \in BOOLEAN : Snapshot(ok)
  \/ \E ok \in BOOLEAN : RecoverCookie(ok)
  \/ \E ok \in BOOLEAN : RecoverModal(ok)
  \/ \E passed \in BOOLEAN : RunAssertions(passed)
  \/ WriteLog
  \/ Observe1
  \/ WriteFinal
  \/ WriteDiff
  \/ \E t \in VerdictTexts : VerifyCallOk(t)
  \/ \E tracing \in BOOLEAN : WriteVerdict(tracing)
  \/ \E t \in PlanTexts : PatchCallOk(t)
  \/ WritePatch
  \/ ObserveP
  \/ StopTrace
  \/ Fail
  \/ \E closeFailed \in BOOLEAN : Close(closeFailed)

Spec == Init /\ [][Next]_vars

\* ------------------------------------------------------------ properties
ExecPcs ==
  {"preCookie", "preModal", "captcha", "twoFA", "dispatch", "snapshot",
   "recoverCookie", "recoverModal", "assert", "writeLog"}

\* runTask is inside patch round patchRound, before the round's verdict
InPatchRound ==
  patchRound > 0 /\ pc \in ExecPcs \cup {"patchCall", "writePatch", "observeP", "verifyCall"}

StepEvents == {"captcha", "twoFA", "dispatch"}

EventCount(e) == Cardinality({k \in 1..Len(trace) : trace[k].ev = e})

\* C1: runTask runs at most maxPatchRounds patch rounds, and a round is
\* started and run only while the latest verdict has status 'patch': after a
\* 'success' or 'escalate' verdict no patch plan is requested or executed.
C1_PatchRoundsBounded ==
  /\ patchRound \in 0..maxPatchRounds
  /\ InPatchRound => verdict.status = "patch"
  /\ \A k \in 1..(MaxRounds + 1) :
       (patchPlan(k) \in files \/ patchLog(k) \in files) => k <= patchRound

\* C1 witness: an 'escalate' verdict of round 1 ended the run although
\* another round was left under the bound.
C1_Witness ==
  /\ pc = "done" /\ returned
  /\ patchRound = 1 /\ maxPatchRounds > 1
  /\ result.status = "escalate"

C3_ResultsArePrefixOfPlan ==
  pc \in ExecPcs =>
    LET n == Len(stepResults) IN
    /\ n <= Len(plan.steps)
    /\ \A i \in 1..n :
         /\ stepResults[i].id = plan.steps[i].id
         /\ stepResults[i].op = plan.steps[i].op
         /\ stepResults[i].status \in {"success", "failed"}
         /\ (i < n => stepResults[i].status = "success")
    /\ \A j, k \in 1..Len(trace) :
         (j < k /\ trace[j].ev = "dispatch" /\ trace[k].ev = "dispatch")
            => trace[j].step < trace[k].step
    /\ (n > 0 /\ stepResults[n].status = "failed") =>
         /\ pc \in {"recoverCookie", "recoverModal", "assert", "writeLog"}
         /\ \A k \in 1..Len(trace) :
              trace[k].ev \in StepEvents => trace[k].step <= n
    /\ (pc = "writeLog" /\ \A i \in 1..n : stepResults[i].status = "success")
         => n = Len(plan.steps)

\* C3 witness: the first of two steps failed and the pass is over.
C3_Witness ==
  /\ pc = "writeLog"
  /\ Len(plan.steps) = 2
  /\ Len(stepResults) = 1
  /\ stepResults[1].status = "failed"
  /\ stepResults[1].error = "NavigationFailed"

\* C4: a step is dispatched only after the CAPTCHA detector and then the 2FA
\* detector ran for that step and both stayed silent; when a detector fires,
\* the step is recorded as failed without being dispatched and no later step
\* is run.
C4_DetectorsGuardEveryStep ==
  pc \in ExecPcs =>
    \A k \in 1..Len(trace) :
      /\ trace[k].ev = "dispatch" =>
           /\ k > 2
           /\ trace[k - 1] = Event("twoFA", trace[k].step, FALSE)
           /\ trace[k - 2] = Event("captcha", trace[k].step, FALSE)
      /\ trace[k].ev = "twoFA" =>
           /\ k > 1
           /\ trace[k - 1] = Event("captcha", trace[k].step, FALSE)
      /\ (trace[k].ev \in {"captcha", "twoFA"} /\ trace[k].res) =>
           /\ \A j \in (k + 1)..Len(trace) : trace[j].ev \notin StepEvents
           /\ Len(stepResults) = trace[k].step
           /\ stepResults[trace[k].step].status = "failed"
           /\ pc \in {"assert", "writeLog"}

\* C4 witness: the 2FA detector fired before the first of two steps.
C4_Witness ==
  /\ pc = "writeLog"
  /\ challenge = "twoFA"
  /\ Len(plan.steps) = 2
  /\ Len(stepResults) = 1
  /\ EventCount("dispatch") = 0

\* C5: a CAPTCHA or 2FA challenge detected in an execution pass forces the
\* run to escalation: the returned verdict is 'escalate' and no patch round
\* follows that pass.
C5_ChallengeForcesEscalation ==
  /\ (returned /\ challenge # "none") => result.status = "escalate"
  /\ pc = "patchCall" => challenge = "none"

\* C6 as stated: in every pass exactly one assertion pass follows step
\* processing, and none happens before or between steps.
C6_ExactlyOneAssertionPass ==
  pc \in ExecPcs =>
    /\ \A k \in 1..Len(trace) : trace[k].ev = "assert" => k = Len(trace)
    /\ pc = "writeLog" => EventCount("assert") = 1

\* C6 amended: in every pass whose plan has a non-empty assertion list
\* exactly one assertion pass follows step processing, whatever ended the step
\* loop; a plan without assertions gets no assertion pass and no
\* assertionResult; no assertion is evaluated before or between steps.
C6_OneAssertionPassIfAny ==
  pc \in ExecPcs =>
    /\ \A k \in 1..Len(trace) : trace[k].ev = "assert" => k = Len(trace)
    /\ pc = "writeLog" =>
         IF plan.hasAssertions /\ Len(plan.assertions) > 0
           THEN EventCount("assert") = 1 /\ assertionResult # "undefined"
           ELSE EventCount("assert") = 0 /\ assertionResult = "undefined"

\* C6 witness: the pass was halted by a CAPTCHA and the assertions still ran.
C6_Witness ==
  /\ pc = "writeLog"
  /\ challenge = "captcha"
  /\ EventCount("assert") = 1
  /\ assertionResult = "failed"

\* C7: on every exit path the browser session is closed exactly once and
\* nothing runs on it after the close.
C7_ClosedExactlyOnce ==
  /\ closeCalls <= 1
  /\ pc = "done" => (closeCalls = 1 /\ session \in {"none", "closed"})
  /\ (closeCalls > 0 \/ session = "closed") => pc = "done"

\* C7 witness: an exception before the first artifact was written, and the
\* session was closed.
C7_Witness ==
  /\ pc = "done"
  /\ raised = "Error"
  /\ files = {}
  /\ session = "closed"
  /\ closeCalls = 1

\* C8: a fatal condition in any phase makes runTask close the browser and
\* reject with that very error; no result is returned and a failing close
\* does not replace the error.
C8_FatalErrorSurfaces ==
  /\ raised # "none" => pc \in {"finally", "done"} /\ ~returned
  /\ (pc = "done" /\ raised # "none") => (error = raised /\ closeCalls = 1)
  /\ (pc = "done" /\ raised = "none") => (error = "none" /\ returned)

\* C8 witness: the verify call of a patch round ran out of retries.
C8_Witness ==
  /\ pc = "done"
  /\ error = "LLMError"
  /\ patchRound > 0
  /\ patchLog(patchRound) \in files
  /\ closeCalls = 1

\* C9: every phase persists its artifact before the next phase starts, so at
\* every point the artifacts of all completed phases are on disk.
C9_ArtifactsBeforeNextPhase ==
  LET first == {initialStateFile}
      planned == first \cup {planFile}
      logged == planned \cup {runlogFile}
      observed == logged \cup {finalStateFile, diffStateFile}
      judged == observed \cup {verdictPath}
      rounds(k) == { patchPlan(j) : j \in 1..k } \cup { patchLog(j) : j \in 1..k }
  IN
  /\ pc \in {"planCall", "writePlan"} => first \subseteq files
  /\ (pc \in ExecPcs /\ patchRound = 0) => planned \subseteq files
  /\ pc \in {"observe1", "writeFinal"} => logged \subseteq files
  /\ (pc \in {"verifyCall", "writeVerdict"} /\ patchRound = 0) => observed \subseteq files
  /\ pc \in {"patchCall", "writePatch"} =>
       /\ judged \cup rounds(patchRound - 1) \subseteq files
       /\ verdictFile = verdict
  /\ (pc \in ExecPcs /\ patchRound > 0) =>
       judged \cup rounds(patchRound - 1) \cup {patchPlan(patchRound)} \subseteq files
  /\ (pc \in {"observeP", "verifyCall", "writeVerdict"} /\ patchRound > 0) =>
       judged \cup rounds(patchRound) \subseteq files
  /\ returned => (judged \cup rounds(patchRound) \subseteq files /\ verdictFile = verdict)

\* C9 witness: round 2 starts with the artifacts of round 1 and its verdict
\* on disk.
C9_Witness ==
  /\ pc = "patchCall"
  /\ patchRound = 2
  /\ {patchPlan(1), patchLog(1), verdictPath} \subseteq files
  /\ verdictFile.next = "runPatch"

\* C10: an oracle output that fails validation is validated again after the
\* repair, so no Plan that violates the schema is executed and no Verdict
\* with a status outside {success, patch, escalate} is returned or drives the
\* patch loop.
C10_OnlyValidOracleOutputUsed ==
  /\ pc \in ExecPcs => validatePlan([kind |-> "object", obj |-> plan])
  /\ pc = "writeVerdict" => verdict.status \in verdictStatuses
  /\ returned => result.status \in verdictStatuses

\* C11: LLMClient.call makes at most Retries attempts, a successful attempt
\* ends the call (one counted call per oracle phase), LLMError is thrown only
\* after the last attempt failed, and that error aborts runTask.
C11_BoundedRetryThenAbort ==
  /\ llmAttempt \in 1..Retries
  /\ raised = "LLMError" =>
       /\ llmAttempt = Retries
       /\ pc \in {"finally", "done"}
       /\ ~returned
       /\ error = "LLMError"
  /\ pc = "planCall" => totalCalls = 0
  /\ pc = "writePlan" => totalCalls = 1
  /\ pc = "writeVerdict" => totalCalls = 2 + 2 * patchRound
  /\ pc = "patchCall" => totalCalls = 2 * patchRound
  /\ pc = "writePatch" => totalCalls = 2 * patchRound + 1

\* C11 witness: the patch call of round 1 ran out of attempts after two
\* successful calls.
C11_Witness ==
  /\ pc = "done"
  /\ raised = "LLMError"
  /\ llmAttempt = Retries
  /\ totalCalls = 2
  /\ patchRound = 1
  /\ patchPlan(1) \notin files


\* ======================================================================
\* Library functions studied on their own.  Each has a specification whose
\* Init draws the arguments and whose action applies the function; the
\* variables of runTask stay at their initial values.
\* ======================================================================
Pending == [state |-> "pending"]

Returned(v) == [state |-> "returned", value |-> v]

Thrown(e) == [state |-> "thrown", error |-> e]

LibRunIdle == RunInit /\ maxPatchRounds = 0

Range(s) == {s[i] : i \in DOMAIN s}

\* ------------------------------------------------------- state/diff.ts
\* bound: elements of a snapshot
MaxElems == 2

Undefined == "undefined"

TRACKED_FIELDS_NoHref ==
  <<"label", "disabled", "visible", "valuePresent", "text">>

TRACKED_FIELDS ==
  <<"label", "disabled", "visible", "valuePresent", "text", "href">>

\* collectState names the elements E1, E2, ... in document order
RefPool == {"E1", "E2", "E3"}

\* an InteractiveElement as collectState builds it
BaseElement(ref) ==
  [ref |-> ref, role |-> "button", label |-> "Submit", valuePresent |-> FALSE,
   disabled |-> FALSE, visible |-> TRUE, text |-> Undefined, href |-> Undefined]

OtherValue(field, v) ==
  CASE field = "role" -> "link"
    [] field = "label" -> "Cancel"
    [] field = "text" -> "Go"
    [] field = "href" -> "/next"
    [] OTHER -> ~v

\* the same element with the fields of F holding another value
Variant(el, F) ==
  [k \in DOMAIN el |-> IF k \in F THEN OtherValue(k, el[k]) ELSE el[k]]

FieldSets ==
  {{}, {"label"}, {"disabled"}, {"visible"}, {"valuePresent"}, {"text"},
   {"href"}, {"role"}, {"label", "visible"},
   {"label", "disabled", "visible", "valuePresent", "text", "href"}}

BaseElements == {BaseElement(r) : r \in RefPool}

Elements == {Variant(BaseElement(r), F) : r \in RefPool, F \in FieldSets}

\* element lists whose refs are pairwise distinct, as collectState yields
Snapshots(elems) ==
  UNION {{s \in [1..n -> elems] :
            \A i, j \in 1..n : s[i].ref = s[j].ref => i = j} : n \in 0..MaxElems}

\* new Map(elements.map(el => [el.ref, el])): a key keeps the place of its
\* first insertion and the value of its last
RECURSIVE indexByRef(_)
indexByRef(elements) ==
  IF elements = <<>> THEN <<>>
  ELSE LET front == indexByRef(SubSeq(elements, 1, Len(elements) - 1))
           el == elements[Len(elements)]
       IN IF \E i \in DOMAIN front : front[i].ref = el.ref
          THEN [i \in DOMAIN front |->
                  IF front[i].ref = el.ref THEN el ELSE front[i]]
          ELSE Append(front, el)

hasNever(map, ref) == FALSE

has(map, ref) == \E i \in DOMAIN map : map[i].ref = ref

get(map, ref) == map[CHOOSE i \in DOMAIN map : map[i].ref = ref]

changedAlways(before, after) ==
  LET D == {TRACKED_FIELDS[i] : i \in DOMAIN TRACKED_FIELDS}
  IN <<[before |-> [f \in D |-> before[f]], after |-> [f \in D |-> after[f]]]>>

\* changed(): the empty tuple stands for null, a one-element tuple for the
\* {before, after} pair restricted to the differing fields
changed(before, after) ==
  LET D == {f \in Range(TRACKED_FIELDS) : before[f] # after[f]}
  IN IF D = {} THEN <<>>
     ELSE <<[before |-> [f \in D |-> before[f]],
             after |-> [f \in D |-> after[f]]]>>

RECURSIVE changedEntries(_, _)
changedEntries(currMap, prevMap) ==
  IF currMap = <<>> THEN <<>>
  ELSE LET currEl == Head(currMap)
           rest == changedEntries(Tail(currMap), prevMap)
       IN IF ~has(prevMap, currEl.ref) THEN rest
          ELSE LET diff == changed(get(prevMap, currEl.ref), currEl)
               IN IF diff = <<>> THEN rest
                  ELSE <<[ref |-> currEl.ref, before |-> diff[1].before,
                          after |-> diff[1].after]>> \o rest

diffStates(prev, curr) ==
  LET prevMap == indexByRef(prev.interactive)
      currMap == indexByRef(curr.interactive)
  IN [added |-> SelectSeq(currMap, LAMBDA el : ~has(prevMap, el.ref)),
      removed |-> SelectSeq(prevMap, LAMBDA el : ~has(currMap, el.ref)),
      changed |-> changedEntries(currMap, prevMap)]

CompactState(elements) == [interactive |-> elements]

InitDiff ==
  /\ LibRunIdle
  /\ input \in {[prev |-> CompactState(p), curr |-> CompactState(c)] :
                  p \in Snapshots(BaseElements), c \in Snapshots(Elements)}
  /\ output = Pending
  /\ disk = Idle
  /\ writer = Idle
  /\ reader = Idle

DiffStates ==
  /\ output = Pending
  /\ output' = Returned(diffStates(input.prev, input.curr))
  /\ UNCHANGED <<runVars, input, disk, writer, reader>>

NextDiff == DiffStates

SpecDiff == InitDiff /\ [][NextDiff]_vars

Refs(elements) == {elements[i].ref : i \in DOMAIN elements}

\* C14: the diff of a snapshot with itself, or with a snapshot equal to it
\* by value, has no added, no removed and no changed entry.
C14_DiffOfEqualSnapshotsIsEmpty ==
  (output.state = "returned" /\ input.prev = input.curr) =>
     /\ output.value.added = <<>>
     /\ output.value.removed = <<>>
     /\ output.value.changed = <<>>

C14_Witness ==
  /\ output.state = "returned"
  /\ input.prev = input.curr
  /\ Len(input.prev.interactive) = 2
  /\ output.value.changed = <<>>

\* C15: elements are matched by ref only: added is exactly the elements of
\* curr whose ref is not in prev, removed exactly the elements of prev whose
\* ref is not in curr, and no ref is in two of added, removed and changed.
C15_MatchingIsByRefOnly ==
  output.state = "returned" =>
    LET p == input.prev.interactive
        c == input.curr.interactive
        d == output.value
        onlyCurr == {i \in DOMAIN c : c[i].ref \notin Refs(p)}
        onlyPrev == {i \in DOMAIN p : p[i].ref \notin Refs(c)}
    IN /\ Range(d.added) = {c[i] : i \in onlyCurr}
       /\ Len(d.added) = Cardinality(onlyCurr)
       /\ Range(d.removed) = {p[i] : i \in onlyPrev}
       /\ Len(d.removed) = Cardinality(onlyPrev)
       /\ Refs(d.added) \cap Refs(d.removed) = {}
       /\ Refs(d.added) \cap Refs(d.changed) = {}
       /\ Refs(d.removed) \cap Refs(d.changed) = {}
       /\ Cardinality(Refs(d.changed)) = Len(d.changed)

\* the same label and role under another ref: one removal and one addition
C15_Witness ==
  /\ output.state = "returned"
  /\ Len(input.prev.interactive) = 1
  /\ Len(input.curr.interactive) = 1
  /\ input.prev.interactive[1].ref # input.curr.interactive[1].ref
  /\ input.prev.interactive[1].label = input.curr.interactive[1].label
  /\ input.prev.interactive[1].role = input.curr.interactive[1].role
  /\ Len(output.value.added) = 1
  /\ Len(output.value.removed) = 1
  /\ output.value.changed = <<>>

\* C16: a ref of both snapshots has a changed entry iff one of label,
\* disabled, visible, valuePresent, text, href differs, and the entry's
\* before and after hold exactly the differing fields, old and new value.
C16_ChangedIffTrackedFieldDiffers ==
  output.state = "returned" =>
    LET p == input.prev.interactive
        c == input.curr.interactive
        ch == output.value.changed
        six == {"label", "disabled", "visible", "valuePresent", "text", "href"}
    IN \A i \in DOMAIN p : \A j \in DOMAIN c :
         p[i].ref = c[j].ref =>
           LET D == {f \in six : p[i][f] # c[j][f]}
               entries == {k \in DOMAIN ch : ch[k].ref = p[i].ref}
           IN /\ D = {} => entries = {}
              /\ D # {} =>
                   /\ Cardinality(entries) = 1
                   /\ \A k \in entries :
                        /\ DOMAIN ch[k].before = D
                        /\ DOMAIN ch[k].after = D
                        /\ \A f \in D : /\ ch[k].before[f] = p[i][f]
                                        /\ ch[k].after[f] = c[j][f]

\* two snapshots that differ in one element's label only
C16_Witness ==
  /\ output.state = "returned"
  /\ Len(input.prev.interactive) = 2
  /\ Len(input.curr.interactive) = 2
  /\ Len(output.value.changed) = 1
  /\ output.value.changed[1].ref = "E2"
  /\ DOMAIN output.value.changed[1].before = {"label"}
  /\ output.value.changed[1].before.label = "Submit"
  /\ output.value.changed[1].after.label = "Cancel"
  /\ output.value.added = <<>>
  /\ output.value.removed = <<>>

\* ---------------------------------------------------- trySelectors
\* bound: fallback locators of a selector set
MaxFallback == 2

SelectorPool == {"h1", "#submit", "[name=q]"}

\* what the page answers for one locator: page.$ resolves to null, page.$
\* rejects, the handle is visible, the handle is hidden, or the handle is
\* found but handle.isVisible() rejects (the element went away)
LookupOutcomes == {"null", "throws", "visible", "hidden", "detached"}

SelectorSets ==
  {[primary |-> p, fallback |-> f] :
     p \in SelectorPool,
     f \in UNION {[1..n -> SelectorPool] : n \in 0..MaxFallback}}

\* const attempts = [selectorSet.primary, ...selectorSet.fallback]
Attempts(selectorSet) == <<selectorSet.primary>> \o selectorSet.fallback

ReturnsHandleOnlyIfVisible(outcome) == outcome = "visible"

\* if (handle) { await handle.isVisible(); return { selector, handle } }
ReturnsHandle(outcome) == outcome \in {"visible", "hidden"}

ElementMissing(attempts) == [kind |-> "ElementMissing", attempts |-> attempts]

InitSelectors ==
  /\ LibRunIdle
  /\ input \in {[selectorSet |-> s, page |-> pg] :
                  s \in SelectorSets, pg \in [SelectorPool -> LookupOutcomes]}
  /\ output = [state |-> "pending", tried |-> <<>>]
  /\ disk = Idle
  /\ writer = Idle
  /\ reader = Idle

\* one turn of the for loop of trySelectors
TrySelector ==
  /\ output.state = "pending"
  /\ Len(output.tried) < Len(Attempts(input.selectorSet))
  /\ LET selector == Attempts(input.selectorSet)[Len(output.tried) + 1]
         outcome == input.page[selector]
         tried == Append(output.tried, selector)
     IN output' =
          IF ReturnsHandle(outcome)
          THEN [state |-> "returned", tried |-> tried,
                value |-> [selector |-> selector, handle |-> outcome]]
          ELSE [state |-> "pending", tried |-> tried]
  /\ UNCHANGED <<runVars, input, disk, writer, reader>>

\* the loop ran out of locators
ThrowElementMissing ==
  /\ output.state = "pending"
  /\ Len(output.tried) = Len(Attempts(input.selectorSet))
  /\ output' = [state |-> "thrown", tried |-> output.tried,
                error |-> ElementMissing(Attempts(input.selectorSet))]
  /\ UNCHANGED <<runVars, input, disk, writer, reader>>

NextSelectors ==
  \/ TrySelector
  \/ ThrowElementMissing

SpecSelectors == InitSelectors /\ [][NextSelectors]_vars

ElementLabels == {<<"O", "k">>, <<"o">>, <<"G", "o">>, <<>>}

\* hint.label: the empty string stands for an absent (or empty) label hint,
\* both are falsy
HintLabels == {<<>>, <<"o", "K">>, <<"k">>, <<"O", "k", "s">>, <<"x">>}

ElementRoles == {"button", "link"}

\* hint.role: "" stands for an absent (or empty) role hint
HintRoles == {"", "button", "link"}

NoHint == [given |-> FALSE]

Hints ==
  {NoHint} \cup {[given |-> TRUE, label |-> l, role |-> r] :
                   l \in HintLabels, r \in HintRoles}

LowerChar(c) ==
  CASE c = "O" -> "o"
    [] c = "K" -> "k"
    [] c = "G" -> "g"
    [] OTHER -> c

toLowerCaseIdentity(s) == s

\* String.prototype.toLowerCase
toLowerCase(s) == [i \in DOMAIN s |-> LowerChar(s[i])]

\* String.prototype.includes: t occurs in s at some position
includes(s, t) ==
  \E k \in 0..(Len(s) - Len(t)) : \A i \in 1..Len(t) : s[k + i] = t[i]

\* the elements of a snapshot, named E1, E2, ... in order
LabelledSnapshots ==
  UNION {{[i \in 1..n |-> [ref |-> IF i = 1 THEN "E1" ELSE IF i = 2 THEN "E2"
                                   ELSE "E3",
                           role |-> rl[i][1], label |-> rl[i][2]]] :
            rl \in [1..n -> ElementRoles \X ElementLabels]} : n \in 0..MaxElems}

\* the filter callback of fuzzyRefResolve
IsCandidate(el, hint) ==
  IF hint.role # "" /\ el.role # hint.role THEN FALSE
  ELSE IF hint.label # <<>>
       THEN LET normalLabel == toLowerCase(el.label)
                normalHint == toLowerCase(hint.label)
            IN includes(normalLabel, normalHint) \/ includes(normalHint, normalLabel)
       ELSE TRUE

\* the result is a tuple: empty for undefined, else the one element
fuzzyRefResolve(missingRef, state, hint) ==
  IF ~hint.given THEN <<>>
  ELSE LET candidates ==
             SelectSeq(state.interactive, LAMBDA el : IsCandidate(el, hint))
       IN IF candidates = <<>> THEN <<>> ELSE <<candidates[1]>>

InitFuzzy ==
  /\ LibRunIdle
  /\ input \in {[missingRef |-> "E9", currentState |-> CompactState(s), hint |-> h] :
                  s \in LabelledSnapshots, h \in Hints}
  /\ output = Pending
  /\ disk = Idle
  /\ writer = Idle
  /\ reader = Idle

FuzzyRefResolve ==
  /\ output = Pending
  /\ output' = Returned(fuzzyRefResolve(input.missingRef, input.currentState,
                                        input.hint))
  /\ UNCHANGED <<runVars, input, disk, writer, reader>>

NextFuzzy == FuzzyRefResolve

SpecFuzzy == InitFuzzy /\ [][NextFuzzy]_vars

\* s and t are equal once upper and lower case are identified
SameIgnoringCase(s, t) ==
  /\ Len(s) = Len(t)
  /\ \A i \in 1..Len(s) :
       \/ s[i] = t[i]
       \/ {s[i], t[i]} \in {{"O", "o"}, {"K", "k"}, {"G", "g"}}

\* t is a stretch of s, ignoring case
ContainsIgnoringCase(s, t) ==
  \E a \in 1..(Len(s) + 1) : \E b \in 0..Len(s) :
     SameIgnoringCase(SubSeq(s, a, b), t)

\* C17: with a role and a label hint the result is the first element, in
\* snapshot order, of that role whose label contains or is contained by the
\* hinted label ignoring case; with a role hint only it is the first element
\* of that role; with no such element, or no hint, the result is none.
C17_FuzzyResolveFirstQualifying ==
  output.state = "returned" =>
    LET els == input.currentState.interactive
        h == input.hint
        Qualifies(i) ==
          /\ els[i].role = h.role
          /\ h.label # <<>> =>
               \/ ContainsIgnoringCase(els[i].label, h.label)
               \/ ContainsIgnoringCase(h.label, els[i].label)
        Q == {i \in DOMAIN els : Qualifies(i)}
    IN /\ ~h.given => output.value = <<>>
       /\ (h.given /\ h.role # "") =>
            /\ Q = {} => output.value = <<>>
            /\ Q # {} =>
                 output.value = <<els[CHOOSE i \in Q : \A j \in Q : i <= j]>>

\* the second element is returned: same role, label "Ok" against hint "oK"
C17_Witness ==
  /\ output.state = "returned"
  /\ input.hint.given
  /\ input.hint.role = "link"
  /\ input.hint.label = <<"o", "K">>
  /\ Len(input.currentState.interactive) = 2
  /\ input.currentState.interactive[1].role = "button"
  /\ input.currentState.interactive[1].label = <<"O", "k">>
  /\ output.value # <<>>
  /\ output.value[1].ref = "E2"
  /\ output.value[1].label = <<"O", "k">>

\* ------------------------------------------------------- runAssertions
\* bound: assertions of a list
MaxAssertions == 2

\* assertions as the planner writes them: value and ref are optional, and
\* "hover" is a kind checkAssertion does not know
AssertionPool ==
  {[kind |-> k, value |-> v, ref |-> Undefined] :
     k \in {"urlContains", "urlEquals", "titleContains", "textPresent",
            "downloadExists"},
     v \in {"login", Undefined}}
  \cup {[kind |-> "elementVisible", value |-> Undefined, ref |-> r] :
          r \in {"Submit", Undefined}}
  \cup {[kind |-> "hover", value |-> "login", ref |-> Undefined]}

\* what the page (or the download directory) answers when asked: the
\* condition holds, it does not, or the call rejects
PageAnswers == {"holds", "fails", "rejects"}

\* checkAssertion: "ok" when it returns, else the class of what it throws
checkAssertion(answer, assertion) ==
  CASE assertion.kind = "urlContains" ->
         \* page.url().includes(value ?? ''): every url includes ''
         IF assertion.value = Undefined \/ answer = "holds" THEN "ok"
         ELSE "AssertionFailed"
    [] assertion.kind = "urlEquals" ->
         \* page.url() !== value: a url is never undefined
         IF assertion.value # Undefined /\ answer = "holds" THEN "ok"
         ELSE "AssertionFailed"
    [] assertion.kind \in {"titleContains", "textPresent"} ->
         IF answer = "rejects" THEN "Error"
         ELSE IF assertion.value = Undefined \/ answer = "holds" THEN "ok"
         ELSE "AssertionFailed"
    [] assertion.kind = "elementVisible" ->
         \* both isVisible calls are caught and turned into false
         IF assertion.ref # Undefined /\ answer = "holds" THEN "ok"
         ELSE "AssertionFailed"
    [] assertion.kind = "downloadExists" ->
         \* readdir is caught; new RegExp(pattern) may throw
         IF answer = "rejects" THEN "Error"
         ELSE IF answer = "holds" THEN "ok"
         ELSE "AssertionFailed"
    [] OTHER -> "AssertionFailed"

\* the entry pushed on failed
FailedEntry(assertion, thrown) ==
  IF thrown = "AssertionFailed"
  THEN [kind |-> assertion.kind, expected |-> assertion.value,
        error |-> "AssertionFailed"]
  ELSE [kind |-> assertion.kind, error |-> "Error"]

NextAssertionStopsOnFailure(i, n, outcome) ==
  IF outcome = "ok" THEN i + 1 ELSE n + 1

\* the for loop goes on to the next assertion whatever the outcome
NextAssertion(i, n, outcome) == i + 1

InitAssertions ==
  /\ LibRunIdle
  /\ input \in UNION {{[assertions |-> a] : a \in [1..n -> AssertionPool]} :
                        n \in 0..MaxAssertions}
  /\ output = [state |-> "pending", i |-> 1, failed |-> <<>>, outcomes |-> <<>>,
               page |-> <<>>]
  /\ disk = Idle
  /\ writer = Idle
  /\ reader = Idle

\* one turn of the for loop of runAssertions; answer is what the page says
\* when checkAssertion asks it (page records the answers given)
CheckAssertion(answer) ==
  /\ output.state = "pending"
  /\ output.i <= Len(input.assertions)
  /\ LET assertion == input.assertions[output.i]
         outcome == checkAssertion(answer, assertion)
     IN output' =
          [output EXCEPT
             !.i = NextAssertion(output.i, Len(input.assertions), outcome),
             !.page = Append(@, answer),
             !.outcomes = Append(@, outcome),
             !.failed = IF outcome = "ok" THEN @
                        ELSE Append(@, FailedEntry(assertion, outcome))]
  /\ UNCHANGED <<runVars, input, disk, writer, reader>>

\* return { passed: failed.length === 0, failed }
ReturnAssertionResult ==
  /\ output.state = "pending"
  /\ output.i > Len(input.assertions)
  /\ output' = [state |-> "returned", outcomes |-> output.outcomes,
                page |-> output.page,
                value |-> [passed |-> Len(output.failed) = 0,
                           failed |-> output.failed]]
  /\ UNCHANGED <<runVars, input, disk, writer, reader>>

NextAssertions ==
  \/ \E answer \in PageAnswers : CheckAssertion(answer)
  \/ ReturnAssertionResult

SpecAssertions == InitAssertions /\ [][NextAssertions]_vars

\* the kinds of the assertions of a that did not come out "ok", in order
RECURSIVE KindsNotHeld(_, _)
KindsNotHeld(a, outcomes) ==
  IF a = <<>> THEN <<>>
  ELSE (IF Head(outcomes) = "ok" THEN <<>> ELSE <<Head(a).kind>>)
       \o KindsNotHeld(Tail(a), Tail(outcomes))

\* C18: every assertion is evaluated, in order, whatever the earlier ones
\* did; failed has one entry per assertion that did not hold (one whose
\* operand is given and whose condition the page does not meet is among
\* them), in list order; passed is true iff failed is empty; an unknown kind
\* always fails.
C18_EveryAssertionEvaluated ==
  output.state = "returned" =>
    LET a == input.assertions
        n == Len(a)
        failed == output.value.failed
    IN /\ Len(output.outcomes) = n
       /\ \A i \in 1..n :
            /\ (IF a[i].kind = "elementVisible" THEN a[i].ref ELSE a[i].value)
                  # Undefined =>
                 (output.page[i] # "holds" => output.outcomes[i] # "ok")
            /\ a[i].kind \notin {"urlContains", "urlEquals", "titleContains",
                                 "textPresent", "elementVisible",
                                 "downloadExists"} => output.outcomes[i] # "ok"
       /\ [k \in DOMAIN failed |-> failed[k].kind] = KindsNotHeld(a, output.outcomes)
       /\ output.value.passed <=> failed = <<>>

\* the first assertion fails, the second (of an unknown kind) is still
\* evaluated and fails too
C18_Witness ==
  /\ output.state = "returned"
  /\ Len(input.assertions) = 2
  /\ input.assertions[1].kind = "textPresent"
  /\ input.assertions[1].value = "login"
  /\ output.page[1] = "rejects"
  /\ input.assertions[2].kind = "hover"
  /\ output.page[2] = "holds"
  /\ Len(output.value.failed) = 2
  /\ output.value.failed[2].kind = "hover"
  /\ ~output.value.passed

\* ------------------------------------------------- artifacts/redact.ts
\* bound: nesting depth of the JSON values
MaxDepth == 2

Key_password == <<"p", "a", "s", "s", "w", "o", "r", "d">>

Key_email == <<"e", "m", "a", "i", "l">>

Key_apiKey == <<"a", "p", "i", "K", "e", "y">>

Key_meta == <<"m", "e", "t", "a">>

ObjectKeys == {Key_password, Key_email, Key_apiKey, Key_meta}

\* each regular expression as the set of the lower-case texts it matches;
\* the i flag is rendered by lower-casing the key
SECRET_KEY_PATTERNS ==
  <<
     \* /password/i
     {<<"p", "a", "s", "s", "w", "o", "r", "d">>},
     \* /passwd/i
     {<<"p", "a", "s", "s", "w", "d">>},
     \* /secret/i
     {<<"s", "e", "c", "r", "e", "t">>},
     \* /token/i
     {<<"t", "o", "k", "e", "n">>},
     \* /api[_-]?key/i
     {<<"a", "p", "i", "k", "e", "y">>,
      <<"a", "p", "i", "_", "k", "e", "y">>,
      <<"a", "p", "i", "-", "k", "e", "y">>},
     \* /otp/i
     {<<"o", "t", "p">>},
     \* /auth(?:orization)?/i
     {<<"a", "u", "t", "h">>,
      <<"a", "u", "t", "h", "o", "r", "i", "z", "a", "t", "i", "o", "n">>},
     \* /credential/i
     {<<"c", "r", "e", "d", "e", "n", "t", "i", "a", "l">>},
     \* /private[_-]?key/i
     {<<"p", "r", "i", "v", "a", "t", "e", "k", "e", "y">>,
      <<"p", "r", "i", "v", "a", "t", "e", "_", "k", "e", "y">>,
      <<"p", "r", "i", "v", "a", "t", "e", "-", "k", "e", "y">>},
     \* /access[_-]?key/i
     {<<"a", "c", "c", "e", "s", "s", "k", "e", "y">>,
      <<"a", "c", "c", "e", "s", "s", "_", "k", "e", "y">>,
      <<"a", "c", "c", "e", "s", "s", "-", "k", "e", "y">>}
  >>

\* patterns.some(p => p.test(key)): an unanchored, case-insensitive match
isSecretKey(key, patterns) ==
  \E i \in DOMAIN patterns :
     \E text \in patterns[i] : includes(toLowerCase(key), text)

\* JSON-like values
JString(s) == [type |-> "string", chars |-> s]

JNumber(n) == [type |-> "number", num |-> n]

JNull == [type |-> "null"]

JArray(items) == [type |-> "array", items |-> items]

\* the entries in insertion order, as Object.entries lists them
JObject(entries) == [type |-> "object", entries |-> entries]

Entry(key, val) == [key |-> key, val |-> val]

Leaves ==
  {JString("hunter2"), JString("s3cr3t!"), JString("abc"), JNumber(1), JNull}

RECURSIVE JsonValues(_)
JsonValues(depth) ==
  IF depth = 0 THEN Leaves
  ELSE LET inner == JsonValues(depth - 1)
       IN inner
          \cup {JArray(<<v>>) : v \in inner}
          \cup {JObject(<<Entry(k, v)>>) : k \in ObjectKeys, v \in inner}
          \cup {JObject(<<Entry(Key_email, JString("a@b.c")), Entry(k, v)>>) :
                  k \in ObjectKeys \ {Key_email}, v \in inner}

Allowlists == {<<>>, <<Key_password>>, <<Key_meta>>}

\* `[REDACTED:${val.length}]`
RedactedMarker(val) == JString("[REDACTED:" \o ToString(Len(val.chars)) \o "]")

RECURSIVE redactSecrets(_, _, _)
redactSecrets(value, allowlist, patterns) ==
  CASE value.type = "null" -> value
    [] value.type = "array" ->
         JArray([i \in DOMAIN value.items |->
                   redactSecrets(value.items[i], allowlist, patterns)])
    [] value.type = "object" ->
         JObject([i \in DOMAIN value.entries |->
                    LET key == value.entries[i].key
                        val == value.entries[i].val
                    IN Entry(key,
                         IF key \in Range(allowlist) THEN val
                         ELSE IF isSecretKey(key, patterns) /\ val.type = "string"
                              THEN RedactedMarker(val)
                              ELSE redactSecrets(val, allowlist, patterns))])
    [] OTHER -> value

InitRedact ==
  /\ LibRunIdle
  /\ input \in {[value |-> v, allowlist |-> a] :
                  v \in JsonValues(MaxDepth), a \in Allowlists}
  /\ output = Pending
  /\ disk = Idle
  /\ writer = Idle
  /\ reader = Idle

RedactSecrets ==
  /\ output = Pending
  /\ output' = Returned(redactSecrets(input.value, input.allowlist,
                                      SECRET_KEY_PATTERNS))
  /\ UNCHANGED <<runVars, input, disk, writer, reader>>

NextRedact == RedactSecrets

SpecRedact == InitRedact /\ [][NextRedact]_vars

\* the value in which every string stored under a key that matches a
\* secret-name pattern and is not allow-listed, at whatever depth, is
\* replaced by the marker of its length, and nothing else is touched
RECURSIVE EverySecretRedacted(_, _)
EverySecretRedacted(value, allowlist) ==
  CASE value.type = "array" ->
         [type |-> "array",
          items |-> [i \in DOMAIN value.items |->
                       EverySecretRedacted(value.items[i], allowlist)]]
    [] value.type = "object" ->
         [type |-> "object",
          entries |->
            [i \in DOMAIN value.entries |->
               LET e == value.entries[i]
               IN [key |-> e.key,
                   val |-> IF /\ e.val.type = "string"
                              /\ isSecretKey(e.key, SECRET_KEY_PATTERNS)
                              /\ e.key \notin Range(allowlist)
                           THEN [type |-> "string",
                                 chars |-> "[REDACTED:" \o ToString(Len(e.val.chars))
                                           \o "]"]
                           ELSE EverySecretRedacted(e.val, allowlist)]]]
    [] OTHER -> value

\* C19: redactSecrets replaces the string value of every key that matches a
\* secret-name pattern and is not allow-listed, at any depth through objects
\* and arrays, by '[REDACTED:<length>]', and leaves all the rest unchanged.
C19_EverySecretKeyRedacted ==
  output.state = "returned" =>
    output.value = EverySecretRedacted(input.value, input.allowlist)

\* ------------------------------------- artifacts/write.ts: the payload
\* const { redact = true, allowlist = [] } = options
DefaultOptions == [redact |-> TRUE, allowlist |-> <<>>]

\* JSON.stringify, as the sequence of the tokens of the text
RECURSIVE stringify(_)
RECURSIVE stringifyItems(_)
RECURSIVE stringifyEntries(_)
stringify(v) ==
  CASE v.type = "string" -> <<[t |-> "string", text |-> v.chars]>>
    [] v.type = "number" -> <<[t |-> "number", digits |-> v.num]>>
    [] v.type = "null" -> <<[t |-> "null"]>>
    [] v.type = "array" -> <<[t |-> "["]>> \o stringifyItems(v.items) \o <<[t |-> "]"]>>
    [] v.type = "object" ->
         <<[t |-> "{"]>> \o stringifyEntries(v.entries) \o <<[t |-> "}"]>>

stringifyItems(items) ==
  IF items = <<>> THEN <<>>
  ELSE stringify(Head(items)) \o stringifyItems(Tail(items))

stringifyEntries(entries) ==
  IF entries = <<>> THEN <<>>
  ELSE <<[t |-> "key", name |-> Head(entries).key]>>
       \o stringify(Head(entries).val) \o stringifyEntries(Tail(entries))

ArtifactJsonUnredacted(data, options) == stringify(data)

\* const payload = redact ? redactSecrets(data, allowlist) : data;
\* const json = JSON.stringify(payload, null, 2)
ArtifactJson(data, options) ==
  stringify(IF options.redact
            THEN redactSecrets(data, options.allowlist, SECRET_KEY_PATTERNS)
            ELSE data)

\* the strings a secret of the same length could be instead
SameLengthStrings(s) ==
  {s} \cup {JString(c) : c \in {x \in {"hunter2", "s3cr3t!"} : Len(x) = Len(s.chars)}}

\* the values that differ from v at most in strings stored under
\* secret-named keys, each replaced by a string of the same length
RECURSIVE SecretVariants(_)
SecretVariants(v) ==
  CASE v.type = "array" ->
         {JArray(items) :
            items \in {s \in [DOMAIN v.items ->
                               UNION {SecretVariants(v.items[i]) : i \in DOMAIN v.items}] :
                         \A i \in DOMAIN v.items : s[i] \in SecretVariants(v.items[i])}}
    [] v.type = "object" ->
         LET ValsAt(i) ==
               IF /\ v.entries[i].val.type = "string"
                  /\ isSecretKey(v.entries[i].key, SECRET_KEY_PATTERNS)
               THEN SameLengthStrings(v.entries[i].val)
               ELSE SecretVariants(v.entries[i].val)
         IN {JObject([i \in DOMAIN v.entries |-> Entry(v.entries[i].key, s[i])]) :
               s \in {s \in [DOMAIN v.entries ->
                              UNION {ValsAt(i) : i \in DOMAIN v.entries}] :
                        \A i \in DOMAIN v.entries : s[i] \in ValsAt(i)}}
    [] OTHER -> {v}

Absent == [exists |-> FALSE]

FileWith(content) == [exists |-> TRUE, content |-> content]

\* two runs, a and b, that write the same artifact; the data of b is that
\* of a up to the secret strings
InitTwoRuns ==
  /\ LibRunIdle
  /\ input \in UNION {{[a |-> v, b |-> w] : w \in SecretVariants(v)} :
                        v \in JsonValues(MaxDepth)}
  /\ output = Pending
  /\ disk = [a |-> Absent, b |-> Absent]
  /\ writer = Idle
  /\ reader = Idle

\* writeJsonArtifact(path, data) as runTask and executePlan call it
WriteArtifact(run) ==
  /\ ~disk[run].exists
  /\ disk' = [disk EXCEPT ![run] = FileWith(ArtifactJson(input[run], DefaultOptions))]
  /\ UNCHANGED <<runVars, input, output, writer, reader>>

NextTwoRuns ==
  \/ WriteArtifact("a")
  \/ WriteArtifact("b")

SpecTwoRuns == InitTwoRuns /\ [][NextTwoRuns]_vars

\* C20: the artifacts go through redactSecrets before they reach the disk,
\* so two runs whose data differ only in equal-length strings under
\* secret-named keys leave identical files.
C20_FilesIndependentOfSecrets ==
  (disk.a.exists /\ disk.b.exists) => disk.a.content = disk.b.content

\* the two runs really had different secrets
C20_Witness ==
  /\ disk.a.exists
  /\ disk.b.exists
  /\ input.a # input.b
  /\ disk.a.content = disk.b.content
  /\ \E i \in DOMAIN disk.a.content :
       /\ disk.a.content[i].t = "string"
       /\ disk.a.content[i].text = "[REDACTED:7]"

\* --------------------------- artifacts/write.ts: writeJsonArtifact on disk
\* bound: successive writes of one artifact path (verdict.json is rewritten
\* after every patch round)
MaxWrites == 2

FilePath == "result/verdict.json"

tmpPathInPlace(filePath) == filePath

\* const tmpPath = `${filePath}.tmp`
tmpPath(filePath) == filePath \o ".tmp"

Paths == {FilePath, tmpPath(FilePath)}

ArtifactData ==
  {JObject(<<Entry(Key_email, JString("a@b.c")),
             Entry(Key_password, JString("hunter2"))>>),
   JArray(<<JNumber(1)>>),
   JString("abc")}

\* dir maps a path to the number of its inode (0: no entry), inodes holds
\* the content of every inode, renames counts the renames onto FilePath
EmptyDisk == [dir |-> [p \in Paths |-> 0], inodes |-> <<>>, renames |-> 0]

\* an earlier run was killed inside fs.writeFile and left its temporary file
StaleTmpDisk ==
  [dir |-> [p \in Paths |-> IF p = "result/verdict.json.tmp" THEN 1 ELSE 0],
   inodes |-> <<(<<[t |-> "{"]>>)>>, renames |-> 0]

InitArtifact ==
  /\ LibRunIdle
  /\ input \in UNION {[1..n -> ArtifactData] : n \in 1..MaxWrites}
  /\ output = Idle
  /\ disk \in {EmptyDisk, StaleTmpDisk}
  /\ writer = [pc |-> "mkdir", n |-> 1, fd |-> 0, json |-> <<>>]
  /\ reader = [pc |-> "idle", fd |-> 0, buf |-> <<>>, version |-> 0,
               result |-> Absent]

\* await fs.mkdir(...); then payload and json are computed
Mkdir ==
  /\ writer.pc = "mkdir"
  /\ writer' = [writer EXCEPT !.pc = "open",
                              !.json = ArtifactJson(input[writer.n], DefaultOptions)]
  /\ UNCHANGED <<runVars, input, output, disk, reader>>

\* fs.writeFile(tmpPath, ...) opens with flag 'w': the file is created, or
\* truncated if the path exists
OpenTmp ==
  /\ writer.pc = "open"
  /\ LET path == tmpPath(FilePath)
         ino == disk.dir[path]
     IN IF ino # 0
        THEN /\ disk' = [disk EXCEPT !.inodes[ino] = <<>>]
             /\ writer' = [writer EXCEPT !.pc = "write", !.fd = ino]
        ELSE /\ disk' = [disk EXCEPT !.inodes = Append(@, <<>>),
                                     !.dir[path] = Len(disk.inodes) + 1]
             /\ writer' = [writer EXCEPT !.pc = "write",
                                         !.fd = Len(disk.inodes) + 1]
  /\ UNCHANGED <<runVars, input, output, reader>>

\* fs.writeFile writes the text piece by piece
WriteChunk ==
  /\ writer.pc = "write"
  /\ Len(disk.inodes[writer.fd]) < Len(writer.json)
  /\ disk' = [disk EXCEPT !.inodes[writer.fd] =
                Append(@, writer.json[Len(disk.inodes[writer.fd]) + 1])]
  /\ UNCHANGED <<runVars, input, output, writer, reader>>

\* fs.writeFile resolves once the whole text is written
CloseTmp ==
  /\ writer.pc = "write"
  /\ Len(disk.inodes[writer.fd]) = Len(writer.json)
  /\ writer' = [writer EXCEPT !.pc = "rename"]
  /\ UNCHANGED <<runVars, input, output, disk, reader>>

\* await fs.rename(tmpPath, filePath): the entry of filePath now names the
\* inode of tmpPath, in one step; the next write of the run follows
Rename ==
  /\ writer.pc = "rename"
  /\ disk' = [disk EXCEPT
                !.dir = [p \in Paths |->
                           IF p = FilePath THEN disk.dir[tmpPath(FilePath)] ELSE 0],
                !.renames = @ + 1]
  /\ writer' = [writer EXCEPT
                  !.pc = IF writer.n < Len(input) THEN "mkdir" ELSE "done",
                  !.n = IF writer.n < Len(input) THEN @ + 1 ELSE @]
  /\ UNCHANGED <<runVars, input, output, reader>>

\* a reader: fs.readFile(filePath) opens the path, or fails with ENOENT
OpenFinal ==
  /\ reader.pc = "idle"
  /\ reader' = IF disk.dir[FilePath] = 0
               THEN [reader EXCEPT !.pc = "done", !.result = Absent]
               ELSE [reader EXCEPT !.pc = "reading", !.fd = disk.dir[FilePath],
                                   !.version = disk.renames]
  /\ UNCHANGED <<runVars, input, output, disk, writer>>

\* it reads what the inode holds, piece by piece
ReadChunk ==
  /\ reader.pc = "reading"
  /\ Len(reader.buf) < Len(disk.inodes[reader.fd])
  /\ reader' = [reader EXCEPT
                  !.buf = Append(@, disk.inodes[reader.fd][Len(reader.buf) + 1])]
  /\ UNCHANGED <<runVars, input, output, disk, writer>>

\* at the end of the file readFile resolves with what was read
ReadEnd ==
  /\ reader.pc = "reading"
  /\ Len(reader.buf) >= Len(disk.inodes[reader.fd])
  /\ reader' = [reader EXCEPT !.pc = "done", !.result = FileWith(reader.buf)]
  /\ UNCHANGED <<runVars, input, output, disk, writer>>

NextArtifact ==
  \/ Mkdir
  \/ OpenTmp
  \/ WriteChunk
  \/ CloseTmp
  \/ Rename
  \/ OpenFinal
  \/ ReadChunk
  \/ ReadEnd

SpecArtifact == InitArtifact /\ [][NextArtifact]_vars

\* the whole text of the k-th write of the run
CompleteContent(k) ==
  stringify(redactSecrets(input[k], <<>>, SECRET_KEY_PATTERNS))

\* C12: whatever the interleaving of a reader with the writes, the reader of
\* the final path gets the absence of the file, or the complete content of
\* the last write renamed before it opened the path; the final path never
\* holds part of a document.
C12_ReaderSeesCompleteContent ==
  /\ disk.dir[FilePath] # 0 =>
       /\ disk.renames >= 1
       /\ disk.inodes[disk.dir[FilePath]] = CompleteContent(disk.renames)
  /\ reader.pc = "done" =>
       IF reader.result.exists
       THEN /\ reader.version >= 1
            /\ reader.result.content = CompleteContent(reader.version)
       ELSE reader.version = 0

\* the reader got the whole first document while the second write was
\* under way in the temporary file
C12_Witness ==
  /\ reader.pc = "done"
  /\ reader.result.exists
  /\ reader.version = 1
  /\ Len(reader.result.content) > 1
  /\ writer.n = 2
  /\ writer.pc = "write"
  /\ Len(disk.inodes[writer.fd]) >= 1
  /\ input[1] # input[2]

\* ------------------------------------------------------------ errors.ts
ErrorCodes ==
  {"CAPTCHA_DETECTED", "TWO_FA_DETECTED", "LOGIN_FAILED", "ELEMENT_MISSING",
   "NAVIGATION_FAILED", "ASSERTION_FAILED", "TIMEOUT",
   "SCHEMA_VALIDATION_FAILED", "LLM_ERROR", "DOWNLOAD_FAILED", "UNKNOWN"}

ErrorClasses ==
  {"CaptchaDetected", "TwoFADetected", "LoginFailed", "ElementMissing",
   "NavigationFailed", "AssertionFailed", "TimeoutError",
   "SchemaValidationError", "LLMError"}

\* new WebRunnerError(code, message, recoverable = false, details)
WebRunnerError(name, code, message, flag, details) ==
  [name |-> name, isWebRunnerError |-> TRUE, code |-> code, message |-> message,
   recoverable |-> flag, details |-> details]

\* new <class>(...args): each subclass passes a fixed code and flag to super
NewError(class, args) ==
  CASE class = "CaptchaDetected" ->
         WebRunnerError(class, "CAPTCHA_DETECTED", args.text, FALSE, Undefined)
    [] class = "TwoFADetected" ->
         WebRunnerError(class, "TWO_FA_DETECTED", args.text, FALSE, Undefined)
    [] class = "LoginFailed" ->
         WebRunnerError(class, "LOGIN_FAILED", args.text, FALSE, Undefined)
    [] class = "ElementMissing" ->
         WebRunnerError(class, "ELEMENT_MISSING", args.text, TRUE, args.details)
    [] class = "NavigationFailed" ->
         WebRunnerError(class, "NAVIGATION_FAILED", args.text, TRUE, args.details)
    [] class = "AssertionFailed" ->
         WebRunnerError(class, "ASSERTION_FAILED", args.text, TRUE, args.details)
    [] class = "TimeoutError" ->
         WebRunnerError(class, "TIMEOUT", args.text, TRUE, Undefined)
    [] class = "SchemaValidationError" ->
         WebRunnerError(class, "SCHEMA_VALIDATION_FAILED", args.text, FALSE,
                        args.details)
    [] class = "LLMError" ->
         WebRunnerError(class, "LLM_ERROR", args.text, TRUE, args.details)
    [] class = "WebRunnerError" ->
         WebRunnerError(class, args.code, args.text, args.flag, args.details)
    [] OTHER ->
         \* a plain Error: no code, no recoverable flag
         [name |-> "Error", isWebRunnerError |-> FALSE, message |-> args.text]

isEscalatableByFlag(err) == err.isWebRunnerError /\ ~err.recoverable

isEscalatable(err) ==
  IF err.isWebRunnerError
  THEN err.code \in {"CAPTCHA_DETECTED", "TWO_FA_DETECTED", "LOGIN_FAILED"}
  ELSE FALSE

InitErrors ==
  /\ LibRunIdle
  /\ input \in
       {[class |-> c, args |-> [text |-> t, details |-> d]] :
          c \in ErrorClasses \cup {"Error"}, t \in {"", "boom", "E7"},
          d \in {Undefined, "details"}}
       \cup {[class |-> "WebRunnerError",
              args |-> [code |-> c, text |-> "boom", flag |-> f, details |-> Undefined]] :
               c \in ErrorCodes, f \in BOOLEAN}
  /\ output = Pending
  /\ disk = Idle
  /\ writer = Idle
  /\ reader = Idle

\* the error is constructed
ConstructError ==
  /\ output = Pending
  /\ output' = [state |-> "constructed", err |-> NewError(input.class, input.args)]
  /\ UNCHANGED <<runVars, input, disk, writer, reader>>

\* isEscalatable(err)
IsEscalatable ==
  /\ output.state = "constructed"
  /\ output' = [state |-> "returned", err |-> output.err,
                value |-> isEscalatable(output.err)]
  /\ UNCHANGED <<runVars, input, disk, writer, reader>>

NextErrors ==
  \/ ConstructError
  \/ IsEscalatable

SpecErrors == InitErrors /\ [][NextErrors]_vars

\* C21: CaptchaDetected, TwoFADetected and LoginFailed are never recoverable,
\* ElementMissing, NavigationFailed, AssertionFailed and Timeout always are,
\* whatever the constructor arguments; isEscalatable is true exactly for the
\* errors whose code is CAPTCHA_DETECTED, TWO_FA_DETECTED or LOGIN_FAILED.
C21_RecoverableFlagsFixed ==
  output.state \in {"constructed", "returned"} =>
    /\ input.class \in {"CaptchaDetected", "TwoFADetected", "LoginFailed"} =>
         ~output.err.recoverable
    /\ input.class \in {"ElementMissing", "NavigationFailed", "AssertionFailed",
                        "TimeoutError"} => output.err.recoverable
    /\ output.state = "returned" =>
         (output.value <=>
            /\ output.err.isWebRunnerError
            /\ output.err.code \in {"CAPTCHA_DETECTED", "TWO_FA_DETECTED",
                                    "LOGIN_FAILED"})

C21_Witness ==
  /\ output.state = "returned"
  /\ input.class = "LoginFailed"
  /\ input.args.text = "boom"
  /\ ~output.err.recoverable
  /\ output.value

\* ------------------------------------------------ JSON text (built-ins)
\* Texts and string values are sequences of characters.
Chars_constructor == <<"c", "o", "n", "s", "t", "r", "u", "c", "t", "o", "r">>

Chars_nativeObject ==
  <<"f", "u", "n", "c", "t", "i", "o", "n", " ", "O", "b", "j", "e", "c", "t", "(", ")", " ", "{", " ", "[", "n", "a", "t", "i", "v", "e", " ", "c", "o", "d", "e", "]", " ", "}">>

WordChars ==
  {"a", "b", "c", "d", "e", "f", "g", "h", "i", "j", "k", "l", "m", "n", "o",
   "p", "q", "r", "s", "t", "u", "v", "w", "x", "y", "z",
   "A", "B", "C", "D", "E", "F", "G", "H", "I", "J", "K", "L", "M", "N", "O",
   "P", "Q", "R", "S", "T", "U", "V", "W", "X", "Y", "Z",
   "0", "1", "2", "3", "4", "5", "6", "7", "8", "9", "_"}

Whitespace == {" ", "\n", "\t", "\r"}

\* the control characters with a short escape, by the letter of the escape
\* ("<BS>" is the backspace character)
ControlChars ==
  [c \in {"n", "t", "r", "f", "b"} |->
     CASE c = "n" -> "\n" [] c = "t" -> "\t" [] c = "r" -> "\r"
       [] c = "f" -> "\f" [] c = "b" -> "<BS>"]

\* JSON.stringify of a string: quotes, with " \ and control characters escaped
RECURSIVE escapeChars(_)
escapeChars(s) ==
  IF s = <<>> THEN <<>>
  ELSE (CASE Head(s) = "\"" -> <<"\\", "\"">>
          [] Head(s) = "\\" -> <<"\\", "\\">>
          [] Head(s) \in Range(ControlChars) ->
               <<"\\", CHOOSE c \in DOMAIN ControlChars : ControlChars[c] = Head(s)>>
          [] OTHER -> <<Head(s)>>) \o escapeChars(Tail(s))

quote(s) == <<"\"">> \o escapeChars(s) \o <<"\"">>

\* the JSON text of a value without indentation, with the characters of
\* `trailing` written before the closer of every non-empty array and object
RECURSIVE JSONtext(_, _)
RECURSIVE JSONtextItems(_, _)
RECURSIVE JSONtextEntries(_, _)
JSONtext(v, trailing) ==
  CASE v.type = "string" -> quote(v.chars)
    [] v.type = "null" -> <<"n", "u", "l", "l">>
    [] v.type = "array" ->
         <<"[">> \o JSONtextItems(v.items, trailing)
         \o (IF v.items # <<>> THEN trailing ELSE <<>>) \o <<"]">>
    [] v.type = "object" ->
         <<"{">> \o JSONtextEntries(v.entries, trailing)
         \o (IF v.entries # <<>> THEN trailing ELSE <<>>) \o <<"}">>

JSONtextItems(items, trailing) ==
  IF items = <<>> THEN <<>>
  ELSE JSONtext(Head(items), trailing)
       \o (IF Len(items) > 1 THEN <<",">> ELSE <<>>)
       \o JSONtextItems(Tail(items), trailing)

JSONtextEntries(entries, trailing) ==
  IF entries = <<>> THEN <<>>
  ELSE quote(Head(entries).key) \o <<":">> \o JSONtext(Head(entries).val, trailing)
       \o (IF Len(entries) > 1 THEN <<",">> ELSE <<>>)
       \o JSONtextEntries(Tail(entries), trailing)

\* JSON.stringify(value)
JSONstringify(v) == JSONtext(v, <<>>)

\* JSON.parse: recursive descent over strings, arrays, objects and null
\* (the texts studied hold no number, no boolean and no \u escape)
ParseFail == [ok |-> FALSE]

ParseOk(v, rest) == [ok |-> TRUE, value |-> v, rest |-> rest]

RECURSIVE skipWhitespace(_)
skipWhitespace(t) ==
  IF t # <<>> /\ Head(t) \in Whitespace THEN skipWhitespace(Tail(t)) ELSE t

RECURSIVE parseString(_, _)
parseString(t, acc) ==
  IF t = <<>> THEN ParseFail
  ELSE IF Head(t) = "\"" THEN ParseOk(JString(acc), Tail(t))
  ELSE IF Head(t) = "\\"
    THEN IF Len(t) < 2 THEN ParseFail
         ELSE IF t[2] \in {"\"", "\\", "/"}
           THEN parseString(SubSeq(t, 3, Len(t)), Append(acc, t[2]))
         ELSE IF t[2] \in DOMAIN ControlChars
           THEN parseString(SubSeq(t, 3, Len(t)), Append(acc, ControlChars[t[2]]))
         ELSE ParseFail
  ELSE IF Head(t) \in Range(ControlChars) THEN ParseFail
  ELSE parseString(Tail(t), Append(acc, Head(t)))

RECURSIVE parseValue(_)
RECURSIVE parseItems(_, _)
RECURSIVE parseEntries(_, _)
parseValue(text) ==
  LET t == skipWhitespace(text)
  IN IF t = <<>> THEN ParseFail
     ELSE CASE Head(t) = "\"" -> parseString(Tail(t), <<>>)
            [] Head(t) = "[" ->
                 LET u == skipWhitespace(Tail(t))
                 IN IF u # <<>> /\ Head(u) = "]" THEN ParseOk(JArray(<<>>), Tail(u))
                    ELSE parseItems(u, <<>>)
            [] Head(t) = "{" ->
                 LET u == skipWhitespace(Tail(t))
                 IN IF u # <<>> /\ Head(u) = "}" THEN ParseOk(JObject(<<>>), Tail(u))
                    ELSE parseEntries(u, <<>>)
            [] Head(t) = "n" ->
                 IF Len(t) >= 4 /\ SubSeq(t, 1, 4) = <<"n", "u", "l", "l">>
                 THEN ParseOk(JNull, SubSeq(t, 5, Len(t)))
                 ELSE ParseFail
            [] OTHER -> ParseFail

parseItems(t, acc) ==
  LET r == parseValue(t)
  IN IF ~r.ok THEN ParseFail
     ELSE LET u == skipWhitespace(r.rest)
          IN IF u = <<>> THEN ParseFail
             ELSE IF Head(u) = "," THEN parseItems(Tail(u), Append(acc, r.value))
             ELSE IF Head(u) = "]"
               THEN ParseOk(JArray(Append(acc, r.value)), Tail(u))
             ELSE ParseFail

parseEntries(text, acc) ==
  LET t == skipWhitespace(text)
  IN IF t = <<>> \/ Head(t) # "\"" THEN ParseFail
     ELSE LET k == parseString(Tail(t), <<>>)
          IN IF ~k.ok THEN ParseFail
             ELSE LET u == skipWhitespace(k.rest)
                  IN IF u = <<>> \/ Head(u) # ":" THEN ParseFail
                     ELSE LET r == parseValue(Tail(u))
                          IN IF ~r.ok THEN ParseFail
                             ELSE LET w == skipWhitespace(r.rest)
                                      e == Append(acc, Entry(k.value.chars, r.value))
                                  IN IF w = <<>> THEN ParseFail
                                     ELSE IF Head(w) = "," THEN parseEntries(Tail(w), e)
                                     ELSE IF Head(w) = "}" THEN ParseOk(JObject(e), Tail(w))
                                     ELSE ParseFail

\* the value, or SyntaxError thrown
JSONparse(text) ==
  LET r == parseValue(text)
  IN IF r.ok /\ skipWhitespace(r.rest) = <<>> THEN Returned(r.value)
     ELSE Thrown("SyntaxError")

\* ------------------------------------------------- cache/macroStore.ts
Key_goal == <<"g", "o", "a", "l">>

Key_steps == <<"s", "t", "e", "p", "s">>

Key_op == <<"o", "p">>

Key_text == <<"t", "e", "x", "t">>

\* a stored plan: a goal and one type step
MacroPlan(goal, text) ==
  JObject(<<Entry(Key_goal, JString(goal)),
            Entry(Key_steps,
                  JArray(<<JObject(<<Entry(Key_op, JString(<<"t", "y", "p", "e">>)),
                                     Entry(Key_text, JString(text))>>)>>))>>)

MacroTexts ==
  {<<"{", "u", "}">>, <<"x", "{", "u", "}">>, <<"{", "u", "}", "{", "p", "}">>,
   <<"{", "p", "}">>, <<"{", "u">>, <<"{", "}">>, <<"a", " ", "b">>,
   <<"{">> \o Chars_constructor \o <<"}">>, <<"\"", "{", "u", "}">>,
   <<"\\", "{", "u", "}">>}

MacroGoals == {<<"g", "o">>, <<"{", "u", "}">>}

ParamNames == {<<"u">>, <<"p">>}

ParamValues ==
  {<<"b", "o", "b">>, <<>>, <<"a", "\"", "b">>, <<"a", "\\", "b">>,
   <<"{", "p", "}">>}

ParamMaps == UNION {[names -> ParamValues] : names \in SUBSET ParamNames}

\* the length of the longest run of word characters at the head: \w+
RECURSIVE wordRun(_)
wordRun(t) ==
  IF t # <<>> /\ Head(t) \in WordChars THEN 1 + wordRun(Tail(t)) ELSE 0

\* the names a plain object inherits, with String() of what they hold
\* (constructor stands for all the names of Object.prototype)
ObjectPrototype == [key \in {Chars_constructor} |-> Chars_nativeObject]

\* params[key] ?? `{${key}}`: a key the map does not own is looked up on
\* the prototype, and replace converts what is found to a string
paramOrToken(params, prototype, key) ==
  IF key \in DOMAIN params THEN params[key]
  ELSE IF key \in DOMAIN prototype THEN prototype[key]
  ELSE <<"{">> \o key \o <<"}">>

\* text.replace(/\{(\w+)\}/g, (_, key) => params[key] ?? `{${key}}`)
RECURSIVE replaceTokens(_, _, _)
replaceTokens(text, params, prototype) ==
  IF text = <<>> THEN <<>>
  ELSE LET n == wordRun(Tail(text))
       IN IF Head(text) = "{" /\ n > 0 /\ Len(text) >= n + 2 /\ text[n + 2] = "}"
          THEN paramOrToken(params, prototype, SubSeq(text, 2, n + 1))
               \o replaceTokens(SubSeq(text, n + 3, Len(text)), params, prototype)
          ELSE <<Head(text)>> \o replaceTokens(Tail(text), params, prototype)

applyParams(stored, params) ==
  LET planStr == JSONstringify(stored)
      filled == replaceTokens(planStr, params, ObjectPrototype)
  IN JSONparse(filled)

InitMacro ==
  /\ LibRunIdle
  /\ input \in {[plan |-> MacroPlan(g, t), params |-> p] :
                  g \in MacroGoals, t \in MacroTexts, p \in ParamMaps}
  /\ output = Pending
  /\ disk = Idle
  /\ writer = Idle
  /\ reader = Idle

\* macroStore.applyParams(plan, params)
ApplyParams ==
  /\ output = Pending
  /\ output' = applyParams(input.plan, input.params)
  /\ UNCHANGED <<runVars, input, disk, writer, reader>>

NextMacro == ApplyParams

SpecMacro == InitMacro /\ [][NextMacro]_vars

\* the plan with the tokens of every string filled value by value from the
\* entries the parameter map itself holds
RECURSIVE FilledPlan(_, _)
FilledPlan(v, params) ==
  CASE v.type = "string" -> JString(replaceTokens(v.chars, params, <<>>))
    [] v.type = "array" ->
         JArray([i \in DOMAIN v.items |-> FilledPlan(v.items[i], params)])
    [] v.type = "object" ->
         JObject([i \in DOMAIN v.entries |->
                    Entry(v.entries[i].key, FilledPlan(v.entries[i].val, params))])
    [] OTHER -> v

\* C22: applyParams returns the plan in which every {name} token whose name is
\* a supplied parameter is replaced by that parameter's value and every other
\* token is left verbatim; with an empty parameter map the returned plan equals
\* the input plan.
C22_TokensFilledByValue ==
  output # Pending =>
    /\ output = Returned(FilledPlan(input.plan, input.params))
    /\ input.params = <<>> => output = Returned(input.plan)

\* --------------------------------------- cli/webrunner.ts: replay
\* config.maxPatchRounds when the caller passes none (defaultConfig)
DefaultMaxPatchRounds == 2

\* the macro key names a stored macro or none; the parameters of the request
ReplayRequests ==
  {[found |-> FALSE, macro |-> JNull, params |-> <<>>]}
  \cup {[found |-> TRUE, macro |-> MacroPlan(<<"g", "o">>, t), params |-> p] :
          t \in {<<"{", "u", "}">>, <<"a", " ", "b">>},
          p \in {<<>>} \cup [{<<"u">>} -> {<<"b", "o", "b">>, <<"a", "\"", "b">>}]}

InitReplay ==
  /\ RunInit
  /\ maxPatchRounds = DefaultMaxPatchRounds
  /\ input \in ReplayRequests
  /\ output = Pending
  /\ disk = Idle
  /\ writer = Idle
  /\ reader = Idle

\* const macro = await macroStore.get(key); if (!macro) the handler stops
ReplayGet ==
  /\ output = Pending
  /\ output' = IF input.found THEN [state |-> "macro"] ELSE Thrown("MacroNotFound")
  /\ UNCHANGED <<runVars, input, disk, writer, reader>>

\* const filledPlan = macroStore.applyParams(macro.plan, params)
ReplayApplyParams ==
  /\ output.state = "macro"
  /\ LET r == applyParams(input.macro, input.params)
     IN output' = IF r.state = "thrown" THEN r
                  ELSE [state |-> "filled", filledPlan |-> r.value]
  /\ UNCHANGED <<runVars, input, disk, writer, reader>>

\* const result = await runTask(goal, { outDir }): the filled plan is not
\* an argument, runTask asks the oracle for a plan as on any run
ReplayRunTask ==
  /\ output.state = "filled"
  /\ Next

NextReplay ==
  \/ ReplayGet
  \/ ReplayApplyParams
  \/ ReplayRunTask

SpecReplay == InitReplay /\ [][NextReplay]_vars

\* the op names of the steps of a plan held as a JSON value
StoredOps(v) ==
  LET steps == v.entries[2].val.items
  IN [i \in DOMAIN steps |-> steps[i].entries[1].val.chars]

OpChars ==
  [op \in {"navigate", "click", "hover"} |->
     CASE op = "navigate" -> <<"n", "a", "v", "i", "g", "a", "t", "e">>
       [] op = "click" -> <<"c", "l", "i", "c", "k">>
       [] op = "hover" -> <<"h", "o", "v", "e", "r">>]

\* C23: a replay makes no oracle call to produce a plan, and the steps it
\* executes are those of the stored plan with its parameters filled in.
C23_ReplayReusesStoredPlan ==
  output.state = "filled" =>
    /\ pc # "planCall"
    /\ pc \in ExecPcs =>
         [i \in DOMAIN plan.steps |-> OpChars[plan.steps[i].op]]
           = StoredOps(output.filledPlan)

\* ------------------------------- planning/validate.ts: safeJsonParse
\* the backquote character, of which a markdown fence has three
Backtick == "<backquote>"

RECURSIVE trimEnd(_)
trimEnd(t) ==
  IF t # <<>> /\ t[Len(t)] \in Whitespace THEN trimEnd(SubSeq(t, 1, Len(t) - 1))
  ELSE t

\* text.trim()
trim(t) == trimEnd(skipWhitespace(t))

isFenceAt(t, i) ==
  i + 2 <= Len(t) /\ t[i] = Backtick /\ t[i + 1] = Backtick /\ t[i + 2] = Backtick

\* where the capture group can start after the fence at i: past an
\* optional "json" in any case, then past the whitespace
groupStart(t, i) ==
  LET a == i + 3
      tagged == /\ a + 3 <= Len(t)
                /\ t[a] \in {"j", "J"} /\ t[a + 1] \in {"s", "S"}
                /\ t[a + 2] \in {"o", "O"} /\ t[a + 3] \in {"n", "N"}
      b == IF tagged THEN a + 4 ELSE a
  IN b + (Len(SubSeq(t, b, Len(t))) - Len(skipWhitespace(SubSeq(t, b, Len(t)))))

closingFences(t, i) == {j \in groupStart(t, i)..Len(t) : isFenceAt(t, j)}

\* cleaned.match(/<fence>(?:json)?\s*([\s\S]*?)<fence>/i): the leftmost opening fence
\* that has a closing one, and the text up to the nearest closing fence
fenceMatch(t) ==
  LET starts == {i \in 1..Len(t) : isFenceAt(t, i) /\ closingFences(t, i) # {}}
  IN IF starts = {} THEN [found |-> FALSE]
     ELSE LET i == CHOOSE x \in starts : \A y \in starts : x <= y
              j == CHOOSE x \in closingFences(t, i) :
                     \A y \in closingFences(t, i) : x <= y
          IN [found |-> TRUE, group |-> SubSeq(t, groupStart(t, i), j - 1)]

\* the largest index holding a character of cs, 0 when there is none
\* (0 stands for the -1 of search and lastIndexOf, indexes being 1-based)
lastIndexOf(t, cs) ==
  LET at == {i \in 1..Len(t) : t[i] \in cs}
  IN IF at = {} THEN 0 ELSE CHOOSE x \in at : \A y \in at : y <= x

\* cleaned.search(/[\[{]/)
searchOpen(t) ==
  LET at == {i \in 1..Len(t) : t[i] \in {"[", "{"}}
  IN IF at = {} THEN 0 ELSE CHOOSE x \in at : \A y \in at : x <= y

\* .replace(/,\s*([}\]])/g, '$1')
RECURSIVE dropCommaBeforeCloser(_)
dropCommaBeforeCloser(t) ==
  IF t = <<>> THEN <<>>
  ELSE LET u == skipWhitespace(Tail(t))
       IN IF Head(t) = "," /\ u # <<>> /\ Head(u) \in {"}", "]"}
          THEN <<Head(u)>> \o dropCommaBeforeCloser(Tail(u))
          ELSE <<Head(t)>> \o dropCommaBeforeCloser(Tail(t))

\* .replace(/([{[,])\s*,/g, '$1')
RECURSIVE dropCommaAfterOpener(_)
dropCommaAfterOpener(t) ==
  IF t = <<>> THEN <<>>
  ELSE LET u == skipWhitespace(Tail(t))
       IN IF Head(t) \in {"{", "[", ","} /\ u # <<>> /\ Head(u) = ","
          THEN <<Head(t)>> \o dropCommaAfterOpener(Tail(u))
          ELSE <<Head(t)>> \o dropCommaAfterOpener(Tail(t))

safeJsonParse(text) ==
  LET trimmed == trim(text)
      m == fenceMatch(trimmed)
      unfenced == IF m.found /\ m.group # <<>> THEN trim(m.group) ELSE trimmed
      firstBrace == searchOpen(unfenced)
      lastBrace == lastIndexOf(unfenced, {"}", "]"})
      cleaned == IF firstBrace # 0 /\ lastBrace # 0
                 THEN (IF firstBrace <= lastBrace
                       THEN SubSeq(unfenced, firstBrace, lastBrace) ELSE <<>>)
                 ELSE unfenced
      strict == JSONparse(cleaned)
  IN IF strict.state = "returned" THEN strict
     ELSE JSONparse(dropCommaAfterOpener(dropCommaBeforeCloser(cleaned)))

Key_id == <<"i", "d">>

\* the strings an oracle may put in a plan
OracleStrings ==
  {<<"t", "e", "s", "t">>, <<"b", "u", "y", " ", "i", "t">>, <<"x", "\"", "y">>,
   <<"a", ",", "b">>, <<"[", "1", "]">>, <<"{", "u", "}">>, <<"O", "K", ",", "}">>,
   <<Backtick, Backtick, Backtick>>}

\* JSON objects: a plan with one step, with no step, and the empty object
OracleObjects ==
  {JObject(<<>>)}
  \cup {JObject(<<Entry(Key_goal, JString(s)), Entry(Key_steps, JArray(<<>>))>>) :
          s \in OracleStrings}
  \cup {JObject(<<Entry(Key_goal, JString(s)),
                  Entry(Key_steps,
                        JArray(<<JObject(<<Entry(Key_id, JString(<<"S", "1">>)),
                                           Entry(Key_op, JString(t))>>)>>))>>) :
          s \in OracleStrings, t \in {<<"g", "o">>, <<"a", ",", " ", "]">>}}

\* the opening lines of a fence
FenceTags == {<<>>, <<"j", "s", "o", "n">>, <<"J", "S", "O", "N">>}

fenced(tag, text) == <<Backtick, Backtick, Backtick>> \o tag \o <<"\n">> \o text \o <<"\n", Backtick, Backtick, Backtick>>

InitSafeJson ==
  /\ LibRunIdle
  /\ input \in [object : OracleObjects, tag : FenceTags]
  /\ output = Pending
  /\ disk = Idle
  /\ writer = Idle
  /\ reader = Idle

\* safeJsonParse of the fence-free, comma-free text
ParsePlain ==
  /\ output = Pending
  /\ output' = [state |-> "plain", plain |-> safeJsonParse(JSONstringify(input.object))]
  /\ UNCHANGED <<runVars, input, disk, writer, reader>>

\* safeJsonParse of the same text with a trailing comma before each closer
\* of a non-empty array or object, inside a fence
ParseFenced ==
  /\ output.state = "plain"
  /\ output' = [state |-> "both", plain |-> output.plain,
                wrapped |-> safeJsonParse(fenced(input.tag,
                                                 JSONtext(input.object, <<",">>)))]
  /\ UNCHANGED <<runVars, input, disk, writer, reader>>

NextSafeJson ==
  \/ ParsePlain
  \/ ParseFenced

SpecSafeJson == InitSafeJson /\ [][NextSafeJson]_vars

\* C24: for every JSON object text, safeJsonParse of the text wrapped in a
\* markdown fence with trailing commas before closing braces and brackets
\* returns the object that the fence-free, comma-free text parses to.
C24_FenceAndCommaInsensitive ==
  /\ output.state \in {"plain", "both"} => output.plain = Returned(input.object)
  /\ output.state = "both" => output.wrapped = output.plain

\* ------------------------------------------- state/diff.ts: collectState
\* what page.evaluate reports for an element, in document order; two
\* elements of a page may be reported alike
RawElements ==
  {[tagName |-> t, name |-> n, disabled |-> d] :
     t \in {"INPUT", "BUTTON", "A"}, n \in {Undefined, "q"}, d \in {FALSE}}

RawLists == UNION {[1..n -> RawElements] : n \in 0..MaxElems}

refOfZeroBased(i) == "E" \o ToString(i - 1)

\* `E${i + 1}` for the 0-based index i of map; i is 1-based here
refOf(i) == "E" \o ToString(i)

\* rawElements.map((el, i) => ({ ref, ... })): the fields studied
interactiveOf(rawElements) ==
  [i \in DOMAIN rawElements |->
     [ref |-> refOf(i), tagName |-> rawElements[i].tagName,
      name |-> rawElements[i].name, disabled |-> rawElements[i].disabled]]

InitCollect ==
  /\ LibRunIdle
  /\ input \in [rawElements : RawLists, pageFails : BOOLEAN]
  /\ output = Pending
  /\ disk = Idle
  /\ writer = Idle
  /\ reader = Idle

\* collectState(page, runId); page.title or page.evaluate may reject
CollectState ==
  /\ output = Pending
  /\ output' = IF input.pageFails THEN Thrown("Error")
               ELSE Returned(CompactState(interactiveOf(input.rawElements)))
  /\ UNCHANGED <<runVars, input, disk, writer, reader>>

NextCollect == CollectState

SpecCollect == InitCollect /\ [][NextCollect]_vars

\* C25: in every CompactState collectState returns, the i-th captured element
\* has ref E<i>, so the refs are E1..En and pairwise distinct.
C25_RefsAreE1ToEn ==
  output.state = "returned" =>
    LET els == output.value.interactive
    IN /\ Len(els) = Len(input.rawElements)
       /\ \A i \in DOMAIN els : els[i].ref = "E" \o ToString(i)
       /\ \A i, j \in DOMAIN els : els[i].ref = els[j].ref => i = j

C25_Witness ==
  /\ output.state = "returned"
  /\ Len(output.value.interactive) = 2
  /\ input.rawElements[1] = input.rawElements[2]
  /\ output.value.interactive[2].ref = "E2"

\* ------------------------------------------------- execute/recovery.ts
\* COOKIE_BANNER_SELECTORS.length, COOKIE_ACCEPT_TEXTS.slice(0, 4).length and
\* MODAL_CLOSE_SELECTORS.length
NumBannerSelectors == 7

NumAcceptTexts == 4

NumModalSelectors == 9

\* a call in progress: the loop it is in, the candidate it is at, the errors
\* swallowed so far and whether a click has been made
Running(at, i, swallowed, acted) ==
  [state |-> "running", at |-> at, i |-> i, swallowed |-> swallowed, acted |-> acted]

Finished(value, swallowed, acted) ==
  [state |-> "returned", value |-> value, swallowed |-> swallowed, acted |-> acted]

InitRecovery ==
  /\ LibRunIdle
  /\ input \in {"handleCookieBanner", "dismissModal"}
  /\ output = Pending
  /\ disk = Idle
  /\ writer = Idle
  /\ reader = Idle

CallRecovery ==
  /\ output = Pending
  /\ output' = IF input = "dismissModal" THEN Running("escape", 0, 0, FALSE)
               ELSE Running("banner", 1, 0, FALSE)
  /\ UNCHANGED <<runVars, input, disk, writer, reader>>

\* await page.keyboard.press('Escape'), outside any try
PressEscape(ok) ==
  /\ output.state = "running" /\ output.at = "escape"
  /\ output' = IF ok THEN Running("escapeWait", 0, 0, FALSE) ELSE Thrown("Error")
  /\ UNCHANGED <<runVars, input, disk, writer, reader>>

\* await page.waitForTimeout(300), outside any try
WaitAfterEscape(ok) ==
  /\ output.state = "running" /\ output.at = "escapeWait"
  /\ output' = IF ok THEN Running("modal", 1, output.swallowed, FALSE)
               ELSE Thrown("Error")
  /\ UNCHANGED <<runVars, input, disk, writer, reader>>

\* what one pass of a probe-and-click loop body can meet
ProbeOutcomes ==
  {"absent", "hidden", "probeRejects", "isVisibleRejects", "clickRejects",
   "waitRejects", "clicked"}

\* the body of a loop whose try holds page.$, isVisible, click, waitForTimeout
\* and return true, and whose catch continues
probeAndClick(call, o) ==
  CASE o = "clicked" -> Finished(TRUE, call.swallowed, TRUE)
    [] o \in {"absent", "hidden"} ->
         Running(call.at, call.i + 1, call.swallowed, call.acted)
    [] o = "waitRejects" -> Running(call.at, call.i + 1, call.swallowed + 1, TRUE)
    [] OTHER -> Running(call.at, call.i + 1, call.swallowed + 1, call.acted)

\* dismissModal: for (const sel of MODAL_CLOSE_SELECTORS) { try ... catch }
ModalCandidate(o) ==
  /\ output.state = "running" /\ output.at = "modal"
  /\ output.i <= NumModalSelectors
  /\ output' = probeAndClick(output, o)
  /\ UNCHANGED <<runVars, input, disk, writer, reader>>

BannerOutcomes ==
  {"absent", "noAcceptButton", "probeRejects", "buttonsReject", "clicked",
   "clickSwallowed", "waitRejects"}

\* handleCookieBanner: for (const sel of COOKIE_BANNER_SELECTORS) { try ... }
BannerCandidate(o) ==
  /\ output.state = "running" /\ output.at = "banner"
  /\ LET next == IF output.i < NumBannerSelectors
                 THEN [at |-> "banner", i |-> output.i + 1]
                 ELSE [at |-> "fallback", i |-> 1]
     IN output' =
          CASE o = "clicked" -> Finished(TRUE, output.swallowed, TRUE)
            [] o = "clickSwallowed" ->
                 Finished(TRUE, output.swallowed + 1, output.acted)
            [] o \in {"absent", "noAcceptButton"} ->
                 Running(next.at, next.i, output.swallowed, output.acted)
            [] o = "waitRejects" ->
                 Running(next.at, next.i, output.swallowed + 1, TRUE)
            [] OTHER -> Running(next.at, next.i, output.swallowed + 1, output.acted)
  /\ UNCHANGED <<runVars, input, disk, writer, reader>>

\* handleCookieBanner: for (const acceptText of COOKIE_ACCEPT_TEXTS.slice(0, 4))
FallbackCandidate(o) ==
  /\ output.state = "running" /\ output.at = "fallback"
  /\ output.i <= NumAcceptTexts
  /\ output' = probeAndClick(output, o)
  /\ UNCHANGED <<runVars, input, disk, writer, reader>>

\* return false
ReturnFalse ==
  /\ output.state = "running"
  /\ \/ output.at = "modal" /\ output.i > NumModalSelectors
     \/ output.at = "fallback" /\ output.i > NumAcceptTexts
  /\ output' = Finished(FALSE, output.swallowed, output.acted)
  /\ UNCHANGED <<runVars, input, disk, writer, reader>>

NextRecovery ==
  \/ CallRecovery
  \/ \E ok \in BOOLEAN : PressEscape(ok)
  \/ \E ok \in BOOLEAN : WaitAfterEscape(ok)
  \/ \E o \in ProbeOutcomes : ModalCandidate(o)
  \/ \E o \in BannerOutcomes : BannerCandidate(o)
  \/ \E o \in ProbeOutcomes : FallbackCandidate(o)
  \/ ReturnFalse

SpecRecovery == InitRecovery /\ [][NextRecovery]_vars

\* C26: handleCookieBanner and dismissModal never raise, whatever the browser
\* primitives do, and each returns a boolean.
C26_RecoveryNeverRaises ==
  /\ output.state # "thrown"
  /\ output.state = "returned" => output.value \in BOOLEAN

\* ------------------------------------------ executePlan: failed steps
\* the step loop of the pass has been left after a failed step
LeftAfterFailure ==
  /\ pc \in {"assert", "writeLog"}
  /\ stepResults # <<>>
  /\ stepResults[Len(stepResults)].status = "failed"

LastError == stepResults[Len(stepResults)].error

\* no step is dispatched twice within a pass
NoRetryInPlace ==
  LET dispatched == {k \in 1..Len(trace) : trace[k].ev = "dispatch"}
  IN Cardinality(dispatched) = Cardinality({trace[k].step : k \in dispatched})

\* C27 (as stated): every recoverable step failure (ElementMissing,
\* NavigationFailed, AssertionFailed, Timeout) is followed by the local
\* recovery, cookie banner then modal, before the pass is left, and the failed
\* step is never retried in place.
C27_RecoverableFailureTriggersRecovery ==
  /\ NoRetryInPlace
  /\ (LeftAfterFailure
        /\ LastError \in {"ElementMissing", "NavigationFailed", "AssertionFailed",
                          "Timeout"})
       => EventCount("recoverCookie") = 1 /\ EventCount("recoverModal") = 1

\* C27 (amended): of the recoverable step failures only ElementMissing is
\* followed by the local recovery before the pass is left; after any other
\* failed step the pass is left with no recovery; no failed step is retried
\* in place.
C27_OnlyElementMissingTriggersRecovery ==
  /\ NoRetryInPlace
  /\ LeftAfterFailure =>
       IF LastError = "ElementMissing"
       THEN EventCount("recoverCookie") = 1 /\ EventCount("recoverModal") = 1
       ELSE EventCount("recoverCookie") = 0 /\ EventCount("recoverModal") = 0

C27_Witness ==
  /\ LeftAfterFailure
  /\ LastError = "NavigationFailed"
  /\ EventCount("recoverCookie") = 0
  /\ EventCount("dispatch") = 2

\* ------------------------------------------- executePlan: resolveRef
\* steps of the ops that take a ref; the ref may be absent or empty, name an
\* element of the snapshot or name none
RefSteps ==
  [op : {"click", "type", "select"}, ref : {Undefined, "", "E1", "E2", "E9"}]

\* snapshots whose elements carry a selector set
SelectorSnapshots ==
  UNION {{[i \in 1..n |-> [ref |-> refOf(i), role |-> "button",
                           label |-> <<"O", "k">>,
                           selectors |-> [primary |-> ps[i], fallback |-> <<>>]]] :
            ps \in [1..n -> {"#a", "#b"}]} : n \in 0..MaxElems}

\* resolveRef with a hint that constrains nothing handed to the fallback
resolveRefWithHint(ref, state) ==
  IF ref \in {Undefined, ""} THEN Thrown("ElementMissing")
  ELSE LET found == SelectSeq(state.interactive, LAMBDA e : e.ref = ref)
       IN IF found = <<>>
          THEN LET fuzzy == fuzzyRefResolve(ref, state,
                                            [given |-> TRUE, label |-> <<>>, role |-> ""])
               IN IF fuzzy # <<>> THEN Returned(fuzzy[1]) ELSE Thrown("ElementMissing")
          ELSE Returned(found[1])

\* if (!ref) throw; state.interactive.find(e => e.ref === ref); else
\* fuzzyRefResolve(ref, state), called without a hint; else throw
resolveRef(ref, state) ==
  IF ref \in {Undefined, ""} THEN Thrown("ElementMissing")
  ELSE LET found == SelectSeq(state.interactive, LAMBDA e : e.ref = ref)
       IN IF found = <<>>
          THEN LET fuzzy == fuzzyRefResolve(ref, state, NoHint)
               IN IF fuzzy # <<>> THEN Returned(fuzzy[1]) ELSE Thrown("ElementMissing")
          ELSE Returned(found[1])

InitResolve ==
  /\ LibRunIdle
  /\ input \in {[step |-> st, currentState |-> CompactState(s)] :
                  st \in RefSteps, s \in SelectorSnapshots}
  /\ output = Pending
  /\ disk = Idle
  /\ writer = Idle
  /\ reader = Idle

\* executeStep, case 'click' | 'type' | 'select': resolveRef, then the call
\* of the browser operation with el.selectors
ResolveAndDispatch ==
  /\ output = Pending
  /\ LET el == resolveRef(input.step.ref, input.currentState)
     IN output' = IF el.state = "thrown" THEN el
                  ELSE [state |-> "dispatched", method |-> input.step.op,
                        selectors |-> el.value.selectors]
  /\ UNCHANGED <<runVars, input, disk, writer, reader>>

\* the browser operation completes or throws
BrowserOperation(ok) ==
  /\ output.state = "dispatched"
  /\ output' = IF ok THEN [state |-> "returned", method |-> output.method,
                           selectors |-> output.selectors]
               ELSE Thrown("Error")
  /\ UNCHANGED <<runVars, input, disk, writer, reader>>

NextResolve ==
  \/ ResolveAndDispatch
  \/ \E ok \in BOOLEAN : BrowserOperation(ok)

SpecResolve == InitResolve /\ [][NextResolve]_vars

\* the elements of the snapshot whose ref is the step's
RefMatches ==
  {i \in DOMAIN input.currentState.interactive :
     input.currentState.interactive[i].ref = input.step.ref}

SnapshotInUse(k) ==
  LET good == {j \in 1..(k - 1) : trace[j].ev = "snapshot" /\ trace[j].res}
  IN IF good = {} THEN 0
     ELSE trace[CHOOSE j \in good : \A i \in good : i <= j].step

\* C29: every successful step is followed by a capture of the page; each step
\* is executed against the snapshot of the last capture that succeeded before
\* it (the snapshot the pass was given when none did); a capture that fails
\* raises nothing and the pass goes on with the next step.
C29_StepsUseLatestSnapshot ==
  \A k \in 1..Len(trace) :
    /\ trace[k].ev = "dispatch" => trace[k].state = SnapshotInUse(k)
    /\ (trace[k].ev = "dispatch" /\ trace[k].res) =>
         IF k = Len(trace) THEN pc = "snapshot"
         ELSE trace[k + 1] = Event("snapshot", trace[k].step, trace[k + 1].res)
    /\ (trace[k].ev = "snapshot" /\ ~trace[k].res) =>
         /\ (k = Len(trace) /\ pc \in ExecPcs) =>
              /\ error = "none"
              /\ stepIdx = trace[k].step + 1
              /\ pc = IF trace[k].step < Len(plan.steps) THEN "captcha"
                      ELSE AfterSteps(plan)
         /\ (k < Len(trace) /\ trace[k].step < Len(plan.steps)) =>
              trace[k + 1].ev = "captcha" /\ trace[k + 1].step = trace[k].step + 1

C29_Witness ==
  /\ Len(trace) > 0
  /\ trace[Len(trace)].ev = "dispatch"
  /\ trace[Len(trace)].step = 2
  /\ trace[Len(trace)].state = 1
  /\ currentState = 1

\* ------------------------------------ executePlan: after ElementMissing
\* the place in the trace of the only event named e
Place(e) == CHOOSE k \in 1..Len(trace) : trace[k].ev = e

\* C30: once a step has failed with ElementMissing and the step loop has been
\* left, the trace of the pass holds exactly one cookie-banner dismissal and
\* then exactly one modal dismissal, both after the failed dispatch and
\* whether they resolved or rejected; no error is raised, the failed step is
\* not dispatched again and no later step is processed.
C30_OneRecoveryThenHalt ==
  (LeftAfterFailure /\ LastError = "ElementMissing") =>
    /\ EventCount("recoverCookie") = 1
    /\ EventCount("recoverModal") = 1
    /\ Place("recoverModal") = Place("recoverCookie") + 1
    /\ trace[Place("recoverCookie") - 1] =
         [ev |-> "dispatch", step |-> Len(stepResults), res |-> FALSE,
          state |-> currentState]
    /\ \A k \in (Place("recoverModal") + 1)..Len(trace) : trace[k].ev = "assert"
    /\ \A k \in 1..Len(trace) : trace[k].ev \in StepEvents => trace[k].step <= Len(stepResults)
    /\ EventCount("dispatch") = Len(stepResults)
    /\ error = "none"

C30_Witness ==
  /\ LeftAfterFailure
  /\ LastError = "ElementMissing"
  /\ Len(stepResults) = 1
  /\ Len(plan.steps) = 2
  /\ trace[Place("recoverCookie")].res = FALSE
  /\ trace[Place("recoverModal")].res = FALSE
  /\ pc = "writeLog"

\* ------------------------------------- executePlan: errors of a step
\* C31 (as stated): an error raised by a detector or a step becomes a failed
\* StepResult, and executePlan still runs the assertion pass and reaches the
\* write of the run log without throwing.
C31_FailedStepStillAsserted ==
  (pc = "writeLog" /\ stepResults # <<>>
     /\ stepResults[Len(stepResults)].status = "failed")
    => EventCount("assert") = 1 /\ error = "none"

\* C31 (amended): an error raised by a detector or a step becomes a failed
\* StepResult carrying the error, nothing is thrown, and executePlan goes on
\* to the assertion pass, which runs when the plan has a non-empty assertions
\* list and is skipped otherwise, and then to the write of the run log.
C31_StepErrorsBecomeFailedResults ==
  (pc \in ExecPcs /\ stepResults # <<>>
     /\ stepResults[Len(stepResults)].status = "failed")
    => /\ error = "none" /\ raised = "none"
       /\ LastError # "none"
       /\ Len(stepResults) = stepIdx
       /\ pc \in {"recoverCookie", "recoverModal", "assert", "writeLog"}
       /\ pc = "writeLog" =>
            EventCount("assert") = IF ShouldRunAssertions(plan) THEN 1 ELSE 0

C31_Witness ==
  /\ pc = "writeLog"
  /\ stepResults # <<>>
  /\ stepResults[Len(stepResults)].status = "failed"
  /\ LastError = "Error"
  /\ EventCount("assert") = 0
  /\ ~ShouldRunAssertions(plan)

\* ------------------------------------------------------------------ C32
\* The observation the patch request in flight was built from, and the one the
\* patch pass in progress was started with.
PatchRequestPending == pc \in {"patchCall", "writePatch"}
PatchPassRunning == patchRound >= 1 /\ pc \in ExecPcs

\* C32: in every patch round, also the second and later ones, the patch prompt
\* is built from the most recent observation of the page (the one the prior
\* verdict was computed from), and the patch pass starts resolving refs
\* against that same observation.
C32_PatchUsesLatestObservation ==
  /\ PatchRequestPending =>
       /\ observations.patchPrompt = observations.latest
       /\ observations.patchPrompt = observations.verdict
  /\ PatchPassRunning =>
       /\ observations.pass = observations.latest
       /\ observations.pass = observations.verdict

\* ------------------------------------------------------------------ C33
\* C33: when runTask returns, state/final.json and state/diff.json describe
\* the last observation of the page made during the run, which is the one the
\* returned verdict was computed from, also after one or more patch rounds.
C33_FinalArtifactsDescribeLastObservation ==
  returned =>
    /\ finalStateFile \in DOMAIN writtenBy
    /\ diffStateFile \in DOMAIN writtenBy
    /\ writtenBy[finalStateFile].state = observations.latest
    /\ writtenBy[diffStateFile].state = observations.latest
    /\ observations.verdict = observations.latest

\* ------------------------------------------- artifacts/paths.ts: RunPaths
\* Paths are character sequences.
Str_out == <<"o", "u", "t">>
Str_json == <<".", "j", "s", "o", "n">>
Str_logJson == <<"-", "l", "o", "g">> \o Str_json
Str_run == <<"r", "u", "n", "-">>
Str_plans == <<"p", "l", "a", "n", "s">>
Str_result == <<"r", "e", "s", "u", "l", "t">>
Str_patch == <<"p", "a", "t", "c", "h", "-">>
Str_verdict == <<"v", "e", "r", "d", "i", "c", "t">>

\* path.join(a, b) for two non-empty segments that need no normalisation
join(a, b) == a \o <<"/">> \o b

\* s.indexOf(t), 1-based; 0 when t does not occur in s
indexOf(s, t) ==
  LET at == {k \in 1..(Len(s) - Len(t) + 1) :
               \A i \in 1..Len(t) : s[k + i - 1] = t[i]}
  IN IF at = {} THEN 0 ELSE CHOOSE k \in at : \A j \in at : k <= j

\* s.replace(t, by) with a string pattern: the first occurrence only
replace(s, t, by) ==
  LET k == indexOf(s, t)
  IN IF k = 0 THEN s
     ELSE SubSeq(s, 1, k - 1) \o by \o SubSeq(s, k + Len(t), Len(s))

RunPaths_runDir(outDir, runId) == join(outDir, Str_run \o runId)
RunPaths_plansDir(outDir, runId) == join(RunPaths_runDir(outDir, runId), Str_plans)
RunPaths_resultDir(outDir, runId) == join(RunPaths_runDir(outDir, runId), Str_result)
RunPaths_patchPlan(outDir, runId, round) ==
  join(RunPaths_plansDir(outDir, runId), Str_patch \o <<ToString(round)>> \o Str_json)
RunPaths_verdict(outDir, runId) ==
  join(RunPaths_resultDir(outDir, runId), Str_verdict \o Str_json)

\* paths.patchPlan(patchRound).replace('.json', '-log.json')
patchLogPath(outDir, runId, round) ==
  replace(RunPaths_patchPlan(outDir, runId, round), Str_json, Str_logJson)

\* config.outDir: directory names, some of which hold ".json"
DirParts == {Str_out, Str_json, <<"d">>}
OutDirs == DirParts \cup {a \o b : a, b \in DirParts}
RunIds == {<<"a">>, <<"b">>}

InitPaths ==
  /\ LibRunIdle
  /\ input \in [outDir : OutDirs, runId : RunIds, round : 1..MaxRounds]
  /\ output = [at |-> "patchPlan"]
  /\ disk = {}
  /\ writer = Idle
  /\ reader = Idle

\* One patch round of runTask: the three artifact writes, in order
WritePatchPlanFile ==
  /\ output.at = "patchPlan"
  /\ disk' = disk \cup {RunPaths_patchPlan(input.outDir, input.runId, input.round)}
  /\ output' = [at |-> "patchLog"]
  /\ UNCHANGED <<runVars, input, writer, reader>>

WritePatchLogFile ==
  /\ output.at = "patchLog"
  /\ disk' = disk \cup {patchLogPath(input.outDir, input.runId, input.round)}
  /\ output' = [at |-> "verdict"]
  /\ UNCHANGED <<runVars, input, writer, reader>>

WriteVerdictFile ==
  /\ output.at = "verdict"
  /\ disk' = disk \cup {RunPaths_verdict(input.outDir, input.runId)}
  /\ output' = [at |-> "written"]
  /\ UNCHANGED <<runVars, input, writer, reader>>

NextPaths == WritePatchPlanFile \/ WritePatchLogFile \/ WriteVerdictFile

SpecPaths == InitPaths /\ [][NextPaths]_vars

\* The three files of round k under the run directory
RoundFiles(outDir, runId, round) ==
  LET plans == RunPaths_plansDir(outDir, runId)
      k == <<ToString(round)>>
  IN {join(plans, Str_patch \o k \o Str_json),
      join(plans, Str_patch \o k \o Str_logJson),
      join(RunPaths_resultDir(outDir, runId), Str_verdict \o Str_json)}

\* C38: patch round k writes only plans/patch-k.json, plans/patch-k-log.json
\* and result/verdict.json of the run directory, so plan.json, runlog.json and
\* the files of the other rounds keep the content their own pass wrote.
C38_PatchRoundWritesOnlyItsFiles ==
  disk \subseteq RoundFiles(input.outDir, input.runId, input.round)

FairSpec == Spec /\ WF_vars(Next)

\* The promise of runTask is settled: resolved with a TaskResult or rejected
Settled == pc = "done" /\ (returned \/ error # "none")

\* C36: when every oracle call and browser action eventually returns or
\* fails, runTask eventually returns a TaskResult or rejects; the patch-round
\* counter grows by exactly one per loop iteration (at the loop test only) and
\* never passes maxPatchRounds, a pass dispatches each plan step at most once,
\* and an oracle call makes at most Retries attempts.
C36_RunTaskTerminates ==
  /\ <>Settled
  /\ [](/\ patchRound \in 0..maxPatchRounds
        /\ llmAttempt \in 1..Retries
        /\ NoRetryInPlace
        /\ EventCount("dispatch") <= Len(plan.steps))
  /\ [][patchRound' # patchRound =>
          /\ patchRound' = patchRound + 1
          /\ pc = "writeVerdict" /\ pc' = "patchCall"]_vars

C36_Witness ==
  /\ Settled
  /\ returned
  /\ maxPatchRounds = 2
  /\ patchRound = 2
  /\ result.status = "patch"

\* ------------------------------------ BrowserController.navigate (part_005)
\* What page.goto does: it resolves with null or with a response of some HTTP
\* status, or it rejects (timeout, DNS failure, aborted load)
HttpStatuses == {0, 200, 304, 404, 500}

GotoOutcomes ==
  {[kind |-> "null"]}
    \cup {[kind |-> "response", status |-> s] : s \in HttpStatuses}
    \cup {[kind |-> "rejects", error |-> e] : e \in {"TimeoutError", "Error"}}

\* response.ok(): status 0 or 200..299
responseOk(status) == status = 0 \/ (status >= 200 /\ status <= 299)

\* response && !response.ok() && response.status() >= 400
responseFailed(response) ==
  /\ response.kind = "response"
  /\ ~responseOk(response.status)
  /\ response.status >= 400

\* new NavigationFailed(url, details)
NavigationFailed(url, details) ==
  NewError("NavigationFailed",
           [text |-> "Navigation to " \o url \o " failed", details |-> details])

NavigateUrls == {Undefined, "", "http://a"}

InitNavigate ==
  /\ LibRunIdle
  /\ input \in [url : NavigateUrls, launched : BOOLEAN, goto : GotoOutcomes,
                networkIdle : BOOLEAN]
  /\ output = [state |-> "step", gotoCalls |-> 0, idleWaits |-> 0]
  /\ disk = Idle
  /\ writer = Idle
  /\ reader = Idle

\* executeStep, case 'navigate': the url test, then browser.navigate(step.url)
NavigateStep ==
  /\ output.state = "step"
  /\ output' =
       IF input.url \in {Undefined, ""}
         THEN [output EXCEPT !.state = "thrown"] @@
              [error |-> NavigationFailed("(missing url)",
                                          "step.url is required for navigate op")]
         ELSE [output EXCEPT !.state = "navigate"]
  /\ UNCHANGED <<runVars, input, disk, writer, reader>>

\* navigate: this.page (throws before launch), await page.goto, the status
\* test; every error of the try block leaves as NavigationFailed
Goto ==
  /\ output.state = "navigate"
  /\ output' =
       IF ~input.launched
         THEN [output EXCEPT !.state = "thrown"] @@
              [error |-> NavigationFailed(input.url, "Error")]
       ELSE IF input.goto.kind = "rejects"
         THEN [output EXCEPT !.state = "thrown", !.gotoCalls = @ + 1] @@
              [error |-> NavigationFailed(input.url, input.goto.error)]
       ELSE IF responseFailed(input.goto)
         THEN [output EXCEPT !.state = "thrown", !.gotoCalls = @ + 1] @@
              [error |-> NavigationFailed(input.url,
                                          [status |-> input.goto.status])]
       ELSE [output EXCEPT !.state = "networkIdle", !.gotoCalls = @ + 1]
  /\ UNCHANGED <<runVars, input, disk, writer, reader>>

\* WaitIdle without the .catch: the TimeoutError reaches the catch of navigate.
WaitIdleNotCaught ==
  /\ output.state = "networkIdle"
  /\ output' =
       IF input.networkIdle
         THEN [output EXCEPT !.state = "returned", !.idleWaits = @ + 1]
         ELSE [output EXCEPT !.state = "thrown", !.idleWaits = @ + 1] @@
              [error |-> NavigationFailed(input.url, "TimeoutError")]
  /\ UNCHANGED <<runVars, input, disk, writer, reader>>

\* await waitForNetworkIdle(page, { timeoutMs: 5000 }).catch(() => {})
WaitIdle ==
  /\ output.state = "networkIdle"
  /\ output' = [output EXCEPT !.state = "returned", !.idleWaits = @ + 1]
  /\ UNCHANGED <<runVars, input, disk, writer, reader>>

NextNavigate == NavigateStep \/ Goto \/ WaitIdle

SpecNavigate == InitNavigate /\ [][NextNavigate]_vars

NavigateSettled == output.state \in {"returned", "thrown"}

\* C34: a navigate step completes or fails with NavigationFailed and nothing
\* else: an HTTP status >= 400 and every page-load error become
\* NavigationFailed, a failed network-idle wait after the load is ignored, and
\* a step without url fails with NavigationFailed before the browser is used.
C34_NavigateFailsOnlyWithNavigationFailed ==
  /\ output.state = "thrown" =>
       /\ output.error.name = "NavigationFailed"
       /\ output.error.code = "NAVIGATION_FAILED"
  /\ input.url \in {Undefined, ""} /\ NavigateSettled =>
       output.state = "thrown" /\ output.gotoCalls = 0
  /\ (input.url \notin {Undefined, ""} /\ NavigateSettled) =>
       (output.state = "thrown" <=>
          \/ ~input.launched
          \/ input.goto.kind = "rejects"
          \/ input.goto.kind = "response" /\ input.goto.status >= 400)
  /\ output.state = "returned" => output.gotoCalls = 1 /\ output.idleWaits = 1

C34_Witness ==
  /\ output.state = "returned"
  /\ ~input.networkIdle
  /\ input.goto.kind = "response"
  /\ input.goto.status = 304

\* ------------------------------------- BrowserController.waitFor (part_005)
\* page.waitForLoadState either resolves or rejects with the TimeoutError of
\* the browser library, which is no WebRunnerError
LibraryTimeout ==
  [name |-> "TimeoutError", isWebRunnerError |-> FALSE, message |-> "Timeout exceeded"]

WaitKinds == {Undefined, "networkIdle", "load", "domcontentloaded"}
\* milliseconds, written as decimal numerals
WaitTimeouts == {Undefined, "1", "5000"}
StepTimeouts == {"1000", "15000"}

\* a ?? b
orElse(a, b) == IF a = Undefined THEN b ELSE a

\* new TimeoutError(operation, timeoutMs)
TimeoutError(operation, timeoutMs) ==
  NewError("TimeoutError",
           [text |-> "Operation " \o operation \o " timed out after "
                       \o timeoutMs \o "ms"])

\* waitForNetworkIdle(page, { timeoutMs }): try { waitForLoadState } catch
waitForNetworkIdle(completes, timeoutMs) ==
  IF completes THEN Returned(Undefined)
  ELSE Thrown(TimeoutError("waitForNetworkIdle", timeoutMs))

\* BrowserController.waitFor(kind, timeoutMs)
waitFor(kind, timeoutMs, stepTimeoutMs, completes) ==
  LET timeout == orElse(timeoutMs, stepTimeoutMs)
  IN IF kind = "networkIdle"
       THEN waitForNetworkIdle(completes, timeout)
       ELSE IF completes THEN Returned(Undefined) ELSE Thrown(LibraryTimeout)

InitWaitFor ==
  /\ LibRunIdle
  /\ input \in [kind : WaitKinds, timeoutMs : WaitTimeouts,
                stepTimeoutMs : StepTimeouts, completes : BOOLEAN]
  /\ output = [state |-> "step"]
  /\ disk = Idle
  /\ writer = Idle
  /\ reader = Idle

\* executeStep, case 'waitFor': step.kind ?? 'networkIdle', step.timeoutMs
WaitForStep ==
  /\ output.state = "step"
  /\ output' = [state |-> "waiting", kind |-> orElse(input.kind, "networkIdle")]
  /\ UNCHANGED <<runVars, input, disk, writer, reader>>

\* the wait resolves, or the timeout passes
WaitForSettles ==
  /\ output.state = "waiting"
  /\ output' = waitFor(output.kind, input.timeoutMs, input.stepTimeoutMs,
                       input.completes)
  /\ UNCHANGED <<runVars, input, disk, writer, reader>>

NextWaitFor == WaitForStep \/ WaitForSettles

SpecWaitFor == InitWaitFor /\ [][NextWaitFor]_vars

\* C35: a waitFor step whose wait does not complete within the timeout fails
\* with a Timeout error of the program (code TIMEOUT, recoverable) for every
\* wait kind: networkIdle, load and domcontentloaded.
C35_WaitForFailsWithTimeout ==
  (output.state \in {"returned", "thrown"} /\ ~input.completes) =>
    /\ output.state = "thrown"
    /\ output.error.isWebRunnerError
    /\ output.error.code = "TIMEOUT"
    /\ output.error.recoverable

\* ------------------------------------------------ config.ts: mergeConfig
\* An object is a function from its own property names to their values; a
\* property may be present with the value undefined.
defaultConfig ==
  [outDir |-> "./out", model |-> "google/gemini-2.0-flash-001",
   maxPatchRounds |-> DefaultMaxPatchRounds]

\* { ...a, ...b }: every own property of b, whatever its value, replaces a's
spread(a, b) ==
  [k \in DOMAIN a \cup DOMAIN b |-> IF k \in DOMAIN b THEN b[k] ELSE a[k]]

\* mergeConfig(overrides)
mergeConfig(overrides) == spread(defaultConfig, overrides)

\* the properties of obj listed in keys
pick(obj, keys) == [k \in keys \cap DOMAIN obj |-> obj[k]]

\* run command handler: runTask(argv.task, { startUrl: argv['start-url'],
\* outDir: argv.out, model: argv.model, ... }); yargs fills argv.out only
cliOverrides(given) ==
  [startUrl |-> given.startUrl, outDir |-> orElse(given.outDir, "./out"),
   model |-> given.model]

\* handleTool, case 'run_task'
mcpOverrides(given) ==
  [startUrl |-> given.startUrl, outDir |-> orElse(given.outDir, "./out"),
   model |-> given.model]

\* a library caller passes the properties it has a value for
apiOverrides(given) ==
  pick(given, {k \in {"startUrl", "outDir", "model"} : given[k] # Undefined}
                \cup (IF given.roundsGiven THEN {"maxPatchRounds"} ELSE {}))

Callers == {"cli", "mcp", "api"}

InitConfig ==
  /\ LibRunIdle
  /\ input \in [caller : Callers, startUrl : {Undefined, "http://a"},
                outDir : {Undefined, "runs"}, model : {Undefined, "other/model"},
                roundsGiven : BOOLEAN, maxPatchRounds : {0, MaxRounds}]
  /\ output = [state |-> "called"]
  /\ disk = Idle
  /\ writer = Idle
  /\ reader = Idle

\* the caller builds the overrides object and calls runTask
CallRunTask ==
  /\ output.state = "called"
  /\ output' = [state |-> "overrides",
                overrides |-> CASE input.caller = "cli" -> cliOverrides(input)
                                [] input.caller = "mcp" -> mcpOverrides(input)
                                [] OTHER -> apiOverrides(input)]
  /\ UNCHANGED <<runVars, input, disk, writer, reader>>

\* const config = mergeConfig(configOverrides)
MergeConfig ==
  /\ output.state = "overrides"
  /\ output' = [state |-> "config", config |-> mergeConfig(output.overrides)]
  /\ UNCHANGED <<runVars, input, disk, writer, reader>>

\* new LLMClient(config, logger): this.model = config.model
NewLLMClient ==
  /\ output.state = "config"
  /\ output' = [state |-> "client", config |-> output.config,
                model |-> output.config.model]
  /\ UNCHANGED <<runVars, input, disk, writer, reader>>

NextConfig == CallRunTask \/ MergeConfig \/ NewLLMClient

SpecConfig == InitConfig /\ [][NextConfig]_vars

\* C39: every configuration field the caller gave no value for has its
\* documented default: without --model (CLI run) or model (MCP run_task) the
\* oracle client uses 'google/gemini-2.0-flash-001', and maxPatchRounds is 2
\* unless overridden.
C39_DefaultsForMissingFields ==
  output.state = "client" =>
    /\ input.model = Undefined => output.model = defaultConfig.model
    /\ input.outDir = Undefined => output.config.outDir = defaultConfig.outDir
    /\ (input.caller # "api" \/ ~input.roundsGiven) =>
         output.config.maxPatchRounds = DefaultMaxPatchRounds

\* --------------------------- assertions.ts: checkAssertion on page content
\* The value of an assertion is absent or a string; strings are character
\* sequences, and a page has a url, a title and a body text.
PageStrings == {<<>>, <<"a">>, <<"b">>, <<"a", "b">>}
AssertionValues ==
  {[present |-> FALSE, text |-> <<>>]}
    \cup {[present |-> TRUE, text |-> t] : t \in PageStrings}
ContentKinds == {"urlContains", "urlEquals", "titleContains", "textPresent"}

\* value ?? '' with 'undefined' spelled out in place of the empty string.
valueOrUndefinedText(value) ==
  IF value.present THEN value.text ELSE <<"u", "n", "d", "e", "f">>

\* value ?? ''
valueOrEmpty(value) == IF value.present THEN value.text ELSE <<>>

\* checkAssertion for the four kinds that read the page: "ok" when it
\* returns, else the class of what it throws
checkAssertionOnPage(page, kind, value) ==
  CASE kind = "urlContains" ->
         IF includes(page.url, valueOrEmpty(value)) THEN "ok"
         ELSE "AssertionFailed"
    [] kind = "urlEquals" ->
         \* page.url() !== value: a string never equals undefined
         IF value.present /\ page.url = value.text THEN "ok"
         ELSE "AssertionFailed"
    [] kind = "titleContains" ->
         IF ~page.responds THEN "Error"
         ELSE IF includes(page.title, valueOrEmpty(value)) THEN "ok"
         ELSE "AssertionFailed"
    [] kind = "textPresent" ->
         IF ~page.responds THEN "Error"
         ELSE IF includes(page.bodyText, valueOrEmpty(value)) THEN "ok"
         ELSE "AssertionFailed"

InitAbsentValue ==
  /\ LibRunIdle
  /\ input \in [kind : ContentKinds, value : AssertionValues,
                page : [url : PageStrings \ {<<>>}, title : PageStrings,
                        bodyText : PageStrings, responds : BOOLEAN]]
  /\ output = Pending
  /\ disk = Idle
  /\ writer = Idle
  /\ reader = Idle

\* await checkAssertion(page, assertion, downloadDir)
CheckOnPage ==
  /\ output = Pending
  /\ output' = Returned(checkAssertionOnPage(input.page, input.kind, input.value))
  /\ UNCHANGED <<runVars, input, disk, writer, reader>>

NextAbsentValue == CheckOnPage

SpecAbsentValue == InitAbsentValue /\ [][NextAbsentValue]_vars

====
